---- MODULE Spec2Model ----
(***************************************************************************)
(* Series synchronisation of the chart application: the SeriesManager      *)
(* (updateAll and its helpers), the CSVParser it reads its input through,  *)
(* the source registry, and the ChartDropdown filter it drives.            *)
(***************************************************************************)
EXTENDS Integers, Sequences, FiniteSets, TLC

\* chart, seriesInstances, legendsDiv, dropdown : the program's state
\* built : the createSeriesInstance calls of the last discovery pass
\* last  : the last operation, its input and its result
\* calls, ops : number of updateAll calls and of filter events so far
\* held  : the Set object a client of the filter got from it and kept
\* main  : the page script: lastLoadedSource and the data loads it has begun
\* registry : seriesOptions.color of every entry of the shared source registry
VARIABLES chart, seriesInstances, legendsDiv, dropdown, built, last, calls, ops,
          held, main, registry

vars ==
    <<chart, seriesInstances, legendsDiv, dropdown, built, last, calls, ops, held, main,
      registry>>

\* ------------------------------------------------------------------------
\* Bounds of the model
\* ------------------------------------------------------------------------

\* number of updateAll calls in one behaviour
MaxCalls == 2

\* number of user checkbox events / direct filter operations in one behaviour
MaxOps == 2

\* ------------------------------------------------------------------------
\* Strings (String.prototype.startsWith / slice / includes)
\* ------------------------------------------------------------------------

startsWith(str, prefix) ==
    /\ Len(str) >= Len(prefix)
    /\ SubSeq(str, 1, Len(prefix)) = prefix

\* a slice that drops one character too many
sliceOneMore(str, start) ==
    SubSeq(str, start + 2, Len(str))

slice(str, start) ==
    SubSeq(str, start + 1, Len(str))

includes(str, sub) ==
    \E i \in 1..(Len(str) - Len(sub) + 1) : SubSeq(str, i, i + Len(sub) - 1) = sub

SeqIncludes(seq, x) ==
    \E i \in 1..Len(seq) : seq[i] = x

\* ------------------------------------------------------------------------
\* Source registry
\* ------------------------------------------------------------------------

\* Object.keys(sl.SeriesSources), in declaration order
SourceKeys ==
    << "candlestick", "volume", "bb_upper", "bb_middle", "bb_lower",
       "dc_upper", "dc_middle", "dc_lower", "adx", "plusDi", "minusDi",
       "aer", "atr" >>

SeriesSources(s) ==
    CASE s = "candlestick" -> "Candlestick"
      [] s = "volume" -> "Histogram"
      [] OTHER -> "Line"

Indicators(i) ==
    CASE i = "bollinger_bands" -> "Bollinger Bands"
      [] i = "donchian_channel" -> "Donchian Channel"
      [] i = "dmi" -> "DMI"

\* label, seriesOptions.color and indicator of every registry entry; a
\* missing color or indicator is "undefined"
SeriesSourceConfigs(s) ==
    CASE s = "candlestick" -> [label |-> "Candlestick", color |-> "undefined", indicator |-> "undefined"]
      [] s = "volume"    -> [label |-> "Volume",    color |-> "#26a69a", indicator |-> "undefined"]
      [] s = "bb_upper"  -> [label |-> "BB Upper",  color |-> "#87312b", indicator |-> "bollinger_bands"]
      [] s = "bb_middle" -> [label |-> "BB Middle", color |-> "#9e9e00", indicator |-> "bollinger_bands"]
      [] s = "bb_lower"  -> [label |-> "BB Lower",  color |-> "#87312b", indicator |-> "bollinger_bands"]
      [] s = "dc_upper"  -> [label |-> "DC Upper",  color |-> "#181577", indicator |-> "donchian_channel"]
      [] s = "dc_middle" -> [label |-> "DC Middle", color |-> "#273186", indicator |-> "donchian_channel"]
      [] s = "dc_lower"  -> [label |-> "DC Lower",  color |-> "#181577", indicator |-> "donchian_channel"]
      [] s = "adx"       -> [label |-> "ADX",       color |-> "#9e6500", indicator |-> "dmi"]
      [] s = "plusDi"    -> [label |-> "+DI",       color |-> "#ffaf3e", indicator |-> "dmi"]
      [] s = "minusDi"   -> [label |-> "-DI",       color |-> "#ffe5c6", indicator |-> "dmi"]
      [] s = "aer"       -> [label |-> "AER",       color |-> "#00ff00", indicator |-> "undefined"]
      [] s = "atr"       -> [label |-> "ATR",       color |-> "#00ff00", indicator |-> "undefined"]

\* the registry object as the module creates it: the color of the
\* seriesOptions of every entry
NewRegistry ==
    [s \in {SourceKeys[i] : i \in 1..Len(SourceKeys)} |-> SeriesSourceConfigs(s).color]

\* sl.SeriesSourceConfigs[s].indicator ?? s
SourceGroup(s) ==
    IF SeriesSourceConfigs(s).indicator = "undefined"
    THEN s
    ELSE SeriesSourceConfigs(s).indicator

\* ------------------------------------------------------------------------
\* Chart surface (the IChartApi calls the SeriesManager makes)
\*   chart.panes  : sequence of panes, each the set of series on it;
\*                  pane index i is element i + 1
\*   chart.opts   : the options and data of every series on the chart
\*   chart.log    : the calls the chart has received, in order, and between
\*                  them the manager's adoption of a new instance set and its
\*                  call of the filter's update
\* ------------------------------------------------------------------------

Handles == 1..40

\* the chart drops a pane that loses its last series (never the only pane)
PreserveEmptyPane == FALSE

NewChart ==
    [panes |-> << {} >>, opts |-> << >>, log |-> << >>]

ChartSeries(c) ==
    DOMAIN c.opts

\* a handle for a series object that does not exist yet
FreshHandle(c) ==
    CHOOSE h \in Handles :
        /\ h \notin ChartSeries(c)
        /\ \A g \in Handles : g < h => g \in ChartSeries(c)

\* series.getPane().paneIndex()
PaneIndexOf(c, h) ==
    (CHOOSE i \in 1..Len(c.panes) : h \in c.panes[i]) - 1

RemoveAt(seq, i) ==
    SubSeq(seq, 1, i - 1) \o SubSeq(seq, i + 1, Len(seq))

CleanupIfPaneIsEmpty(panes, i) ==
    IF ~PreserveEmptyPane /\ panes[i] = {} /\ Len(panes) > 1
    THEN RemoveAt(panes, i)
    ELSE panes

\* chart.addSeries(definition, options): the series starts on pane 0
ChartAddSeries(c, h, seriesType, color) ==
    [panes |-> [c.panes EXCEPT ![1] = @ \cup {h}],
     opts  |-> (h :> [seriesType |-> seriesType, color |-> color,
                      visible |-> TRUE, dataSet |-> FALSE, data |-> << >>,
                      markers |-> << >>])
               @@ c.opts,
     log   |-> Append(c.log, "addSeries")]

\* series.moveToPane(paneIndex)
ChartMoveToPane(c, h, paneIndex) ==
    LET from   == PaneIndexOf(c, h) + 1
        taken  == [c.panes EXCEPT ![from] = @ \ {h}]
        target == IF paneIndex < Len(taken) THEN paneIndex + 1 ELSE Len(taken) + 1
        placed == IF target > Len(taken)
                  THEN Append(taken, {h})
                  ELSE [taken EXCEPT ![target] = @ \cup {h}]
    IN  IF paneIndex = from - 1
        THEN c
        ELSE [c EXCEPT !.panes = CleanupIfPaneIsEmpty(placed, from)]

\* chart.removeSeries(series)
ChartRemoveSeries(c, h) ==
    LET i     == PaneIndexOf(c, h) + 1
        taken == [c.panes EXCEPT ![i] = @ \ {h}]
    IN  [panes |-> CleanupIfPaneIsEmpty(taken, i),
         opts  |-> [g \in ChartSeries(c) \ {h} |-> c.opts[g]],
         log   |-> Append(c.log, "removeSeries")]

\* series.applyOptions({ visible })
ChartSetVisible(c, h, visible) ==
    IF h \in ChartSeries(c)
    THEN [c EXCEPT !.opts[h].visible = visible,
                   !.log = Append(@, "applyOptions")]
    ELSE [c EXCEPT !.log = Append(@, "applyOptions of a removed series")]

\* series.setData(data)
ChartSetData(c, h, data) ==
    [c EXCEPT !.opts[h].data = data, !.opts[h].dataSet = TRUE,
              !.log = Append(@, "setData")]

\* chart.timeScale().fitContent()
ChartFitContent(c) ==
    [c EXCEPT !.log = Append(@, "fitContent")]

\* createSeriesMarkers(series).setMarkers(markers)
ChartSetMarkers(c, h, markers) ==
    [c EXCEPT !.opts[h].markers = markers, !.log = Append(@, "setMarkers")]

\* ------------------------------------------------------------------------
\* CSVParser.  A CSV text is the sequence of its lines (split on '\n' after
\* trim), each line the sequence of its trimmed cells (split on ',').
\* Numbers are written as their decimal text, not-a-number as "NaN".
\* ------------------------------------------------------------------------

\* new CSVParser(csvText): [threw, headers, data]
ParseCSV(csvText) ==
    IF csvText = << >>
    THEN [threw |-> TRUE, headers |-> << >>, data |-> << >>]
    ELSE IF Len(csvText) < 2
    THEN [threw |-> TRUE, headers |-> << >>, data |-> << >>]
    ELSE LET headers == csvText[1]
             KeepRow(values) == Len(values) = Len(headers)
         IN  [threw |-> FALSE, headers |-> headers,
              data |-> SelectSeq(Tail(csvText), KeepRow)]

\* entry[key] of a parsed row: headers.forEach assigns in order, so the last
\* column of that name wins; a name that is no header reads undefined
RowGet(headers, row, key) ==
    IF SeqIncludes(headers, key)
    THEN row[CHOOSE i \in 1..Len(headers) :
                /\ headers[i] = key
                /\ \A j \in (i + 1)..Len(headers) : headers[j] # key]
    ELSE "undefined"

\* parseFloat on the cells the inputs use
ParseFloat(cell) ==
    CASE cell = "1" -> "1"
      [] cell = "2.5" -> "2.5"
      [] cell = "1700000000" -> "1700000000"
      [] OTHER -> "NaN"

\* Date.parse(cell) / 1000 on the cells the inputs use ("NaN" when the cell
\* is no date string)
DateParseSeconds(cell) ==
    CASE cell = "2024-01-01" -> "1704067200"
      [] OTHER -> "NaN"

NormalizeTime(timeValue) ==
    IF DateParseSeconds(timeValue) # "NaN"
    THEN DateParseSeconds(timeValue)
    ELSE ParseFloat(timeValue)

\* _validateColumns: TRUE when it throws
MissingColumns(parser, requiredColumns) ==
    \E i \in 1..Len(requiredColumns) : ~SeqIncludes(parser.headers, requiredColumns[i])

NoData(parser) ==
    Len(parser.data) = 0

LinePoint(parser, row, requiredColumn) ==
    [time  |-> NormalizeTime(RowGet(parser.headers, row, "time")),
     value |-> ParseFloat(RowGet(parser.headers, row, requiredColumn))]

\* parseLineData(requiredColumn): [threw, points]
ParseLineData(parser, requiredColumn) ==
    IF NoData(parser) \/ MissingColumns(parser, <<"time", requiredColumn>>)
    THEN [threw |-> TRUE, points |-> << >>]
    ELSE [threw |-> FALSE,
          points |-> [i \in 1..Len(parser.data) |->
                        LinePoint(parser, parser.data[i], requiredColumn)]]

\* parseHistogramData(requiredColumn): [threw, points]
ParseHistogramData(parser, requiredColumn) ==
    IF NoData(parser) \/ MissingColumns(parser, <<"time", requiredColumn>>)
    THEN [threw |-> TRUE, points |-> << >>]
    ELSE [threw |-> FALSE,
          points |-> [i \in 1..Len(parser.data) |->
                        LinePoint(parser, parser.data[i], requiredColumn)]]

CandlePoint(parser, row) ==
    [time  |-> NormalizeTime(RowGet(parser.headers, row, "time")),
     value |-> << ParseFloat(RowGet(parser.headers, row, "open")),
                  ParseFloat(RowGet(parser.headers, row, "high")),
                  ParseFloat(RowGet(parser.headers, row, "low")),
                  ParseFloat(RowGet(parser.headers, row, "close")) >>]

\* parseCandlestickData(): [threw, points]
ParseCandlestickData(parser) ==
    IF NoData(parser) \/ MissingColumns(parser, <<"time", "open", "high", "low", "close">>)
    THEN [threw |-> TRUE, points |-> << >>]
    ELSE [threw |-> FALSE,
          points |-> [i \in 1..Len(parser.data) |-> CandlePoint(parser, parser.data[i])]]

\* parseTradeEvents(): [threw, points]
ParseTradeEvents(parser) ==
    IF NoData(parser) \/ MissingColumns(parser, <<"time", "event">>)
    THEN [threw |-> TRUE, points |-> << >>]
    ELSE [threw |-> FALSE,
          points |-> [i \in 1..Len(parser.data) |->
                        [time  |-> NormalizeTime(RowGet(parser.headers, parser.data[i], "time")),
                         event |-> RowGet(parser.headers, parser.data[i], "event")]]]

\* ------------------------------------------------------------------------
\* Series factory functions.  An optional argument is << >> when it is
\* omitted (undefined) and <<v>> when it is given.
\* ------------------------------------------------------------------------

\* if (paneIndex)
Truthy(paneIndex) ==
    paneIndex # << >> /\ paneIndex[1] # 0

addLineSeries(c, h, color, paneIndex) ==
    LET added == ChartAddSeries(c, h, "Line", color)
    IN  IF Truthy(paneIndex) THEN ChartMoveToPane(added, h, paneIndex[1]) ELSE added

addHistogramSeries(c, h, color, paneIndex) ==
    LET added == ChartAddSeries(c, h, "Histogram", color)
    IN  IF Truthy(paneIndex) THEN ChartMoveToPane(added, h, paneIndex[1]) ELSE added

addCandlestickSeries(c, h, color, paneIndex) ==
    LET added == ChartAddSeries(c, h, "Candlestick", color)
    IN  IF Truthy(paneIndex) THEN ChartMoveToPane(added, h, paneIndex[1]) ELSE added

NewInstance(seriesSource, seriesType, h, suffix) ==
    [suffix |-> suffix, seriesSource |-> seriesSource, seriesType |-> seriesType,
     series |-> h, data |-> << >>, legendElement |-> h, textContent |-> ""]

\* a factory that makes a line series for every kind it does not know
createSeriesInstanceAnyKind(c, seriesSource, seriesType, color, paneIndex, suffix) ==
    LET h == FreshHandle(c)
        instance == NewInstance(seriesSource, seriesType, h, suffix)
    IN  CASE seriesType = "Candlestick" ->
               [created |-> TRUE, instance |-> instance,
                chart |-> addCandlestickSeries(c, h, "undefined", << >>)]
          [] seriesType = "Histogram" ->
               [created |-> TRUE, instance |-> instance,
                chart |-> addHistogramSeries(c, h, color, << >>)]
          [] OTHER ->
               [created |-> TRUE, instance |-> instance,
                chart |-> addLineSeries(c, h, color, paneIndex)]

\* createSeriesInstance: [created, chart, instance]; the candlestick branch
\* passes neither options nor pane, the histogram branch no pane
createSeriesInstance(c, seriesSource, seriesType, color, paneIndex, suffix) ==
    LET h == FreshHandle(c)
        instance == NewInstance(seriesSource, seriesType, h, suffix)
    IN  CASE seriesType = "Candlestick" ->
               [created |-> TRUE, instance |-> instance,
                chart |-> addCandlestickSeries(c, h, "undefined", << >>)]
          [] seriesType = "Histogram" ->
               [created |-> TRUE, instance |-> instance,
                chart |-> addHistogramSeries(c, h, color, << >>)]
          [] seriesType = "Line" ->
               [created |-> TRUE, instance |-> instance,
                chart |-> addLineSeries(c, h, color, paneIndex)]
          [] OTHER ->
               [created |-> FALSE, instance |-> instance, chart |-> c]

sourceColorMap(k) ==
    CASE k = "bb_ul" -> << "#87312b", "#c22929", "#dc7369" >>
      [] k = "bb_m"  -> << "#9e9e00", "#ffff00", "#feff83" >>
      [] k = "dc_ul" -> << "#181577", "#2e29c2", "#5f73da" >>
      [] k = "dc_m"  -> << "#273186", "#800080", "#a95ea7" >>

\* array[num]: undefined past the end
ArrayGet(array, num) ==
    IF num < Len(array) THEN array[num + 1] ELSE "undefined"

\* the palette key getSourceOptions reads for a bb_/dc_ source
PaletteOf(source) ==
    CASE source \in {"bb_upper", "bb_lower"} -> "bb_ul"
      [] source = "bb_middle" -> "bb_m"
      [] source \in {"dc_upper", "dc_lower"} -> "dc_ul"
      [] source = "dc_middle" -> "dc_m"

\* the palette read at a fixed index, whatever the occurrence number
getSourceOptionsFirst(source, num) ==
    ArrayGet(sourceColorMap(PaletteOf(source)), 0)

\* getSourceOptions(source, num).color
getSourceOptions(source, num) ==
    ArrayGet(sourceColorMap(PaletteOf(source)), num)

\* a getSourceOptions that writes the color into the registry entry itself
RegistryWrittenInPlace(configs, source, num) ==
    [configs EXCEPT ![source] = getSourceOptions(source, num)]

\* the registry after getSourceOptions(source, num): sourceOptions is a
\* spread copy of the entry's seriesOptions, and the color is written on
\* the copy
RegistryAfterGetSourceOptions(configs, source, num) ==
    configs

\* ------------------------------------------------------------------------
\* SeriesManager.  seriesInstances is the Map in insertion order, each
\* entry [key, value].
\* ------------------------------------------------------------------------

MapHas(map, key) ==
    \E i \in 1..Len(map) : map[i].key = key

MapGet(map, key) ==
    map[CHOOSE i \in 1..Len(map) : map[i].key = key].value

\* Map.prototype.set: an existing key keeps its place and gets the new value
MapSet(map, key, value) ==
    IF MapHas(map, key)
    THEN [i \in 1..Len(map) |->
            IF map[i].key = key THEN [key |-> key, value |-> value] ELSE map[i]]
    ELSE Append(map, [key |-> key, value |-> value])

MapKeys(map) ==
    {map[i].key : i \in 1..Len(map)}

\* the series handles the instances of a map hold
MapSeries(map) ==
    {map[i].value.series : i \in 1..Len(map)}

\* a pane lookup that never reuses the pane of the group
getPaneIndexAlwaysNew(c, seriesSource, instances) ==
    Len(c.panes)

\* getPaneIndex(seriesSource, seriesInstances)
getPaneIndex(c, seriesSource, instances) ==
    LET seriesGroup == SourceGroup(seriesSource)
        same == {i \in 1..Len(instances) :
                    SourceGroup(instances[i].value.seriesSource) = seriesGroup}
        first == CHOOSE i \in same : \A j \in same : i <= j
    IN  IF same # {}
        THEN PaneIndexOf(c, instances[first].value.series)
        ELSE Len(c.panes)

\* a match on the first character of the key alone
MatchingSourceByFirstCharacter(header) ==
    LET hits == {i \in 1..Len(SourceKeys) :
                    startsWith(header, SubSeq(SourceKeys[i], 1, 1))}
    IN  IF hits = {}
        THEN << >>
        ELSE << SourceKeys[CHOOSE i \in hits : \A j \in hits : i <= j] >>

\* (Object.keys(sl.SeriesSources)).find(s => header.startsWith(s)):
\* << >> when no key matches, <<key>> for the first key that does
MatchingSource(header) ==
    LET hits == {i \in 1..Len(SourceKeys) : startsWith(header, SourceKeys[i])}
    IN  IF hits = {}
        THEN << >>
        ELSE << SourceKeys[CHOOSE i \in hits : \A j \in hits : i <= j] >>

OwnPaneSources == {"adx", "plusDi", "minusDi", "aer", "atr"}

RepeatableSources == {"bb_upper", "bb_middle", "bb_lower", "dc_upper", "dc_middle", "dc_lower"}

\* the pane argument of the switch branch of a matched source
PaneArgument(acc, source) ==
    IF source \in OwnPaneSources
    THEN << getPaneIndex(acc.chart, source, acc.seriesInstances) >>
    ELSE << >>

\* the color of the options the switch branch of a matched source passes
ColorArgument(acc, source) ==
    IF source \in RepeatableSources
    THEN getSourceOptions(source, acc.sourceCount[source])
    ELSE acc.configs[source]

\* the registry after the options of the switch branch were made
ConfigsAfterArgument(acc, source) ==
    IF source \in RepeatableSources
    THEN RegistryAfterGetSourceOptions(acc.configs, source, acc.sourceCount[source])
    ELSE acc.configs

\* seriesInstances.set(key, seriesInstance); sourceCount[source]++ -- with
\* the call's arguments appended to the log of the pass (column is the
\* number of the header the call was made for, 0 for the price-bar call)
Record(acc, column, key, source, color, paneIndex, made) ==
    IF made.created
    THEN [chart |-> made.chart,
          seriesInstances |-> MapSet(acc.seriesInstances, key, made.instance),
          sourceCount |-> [acc.sourceCount EXCEPT ![source] = @ + 1],
          built |-> Append(acc.built,
                      [column |-> column, key |-> key, seriesSource |-> source,
                       num |-> acc.sourceCount[source], color |-> color,
                       paneIndex |-> paneIndex, series |-> made.instance.series]),
          configs |-> acc.configs]
    ELSE [acc EXCEPT !.chart = made.chart]

\* one iteration of the loop over rawCsvHeaders
DiscoverColumn(acc, headers, i) ==
    LET header   == headers[i]
        matching == MatchingSource(header)
        source   == matching[1]
        suffix   == slice(header, Len(source))
        paneIndex == PaneArgument(acc, source)
        color    == ColorArgument(acc, source)
    IN  IF matching = << >>
        THEN acc
        ELSE Record([acc EXCEPT !.configs = ConfigsAfterArgument(acc, source)],
                    i, header, source, color, paneIndex,
                    createSeriesInstance(acc.chart, source, SeriesSources(source),
                                         color, paneIndex, suffix))

RECURSIVE DiscoverColumns(_, _, _)
DiscoverColumns(acc, headers, i) ==
    IF i > Len(headers)
    THEN acc
    ELSE DiscoverColumns(DiscoverColumn(acc, headers, i), headers, i + 1)

\* a test of the price columns that never finds them
allOhlcPresentNever(headers) ==
    FALSE

allOhlcPresent(headers) ==
    \A c \in {"open", "high", "low", "close"} : SeqIncludes(headers, c)

\* the price-bar instance under the reserved key, when all four price
\* columns are present
DiscoverCandlestick(acc, headers) ==
    IF allOhlcPresent(headers)
    THEN Record(acc, 0, "candlestick", "candlestick",
                acc.configs["candlestick"], << >>,
                createSeriesInstance(acc.chart, "candlestick", "Candlestick",
                                     acc.configs["candlestick"],
                                     << >>, ""))
    ELSE acc

\* addSeriesFromCsv(csvParser): the chart with the new series on it, the new
\* Map, the occurrence counters and the log of the pass
addSeriesFromCsv(c, configs, headers) ==
    LET start == [chart |-> c, seriesInstances |-> << >>,
                  sourceCount |-> [s \in {SourceKeys[i] : i \in 1..Len(SourceKeys)} |-> 0],
                  built |-> << >>, configs |-> configs]
    IN  DiscoverColumns(DiscoverCandlestick(start, headers), headers, 1)

\* ------------------------------------------------------------------------
\* ChartDropdown.  The state st an operation works on is the record
\* [chart, seriesInstances, legendsDiv, dropdown]; dropdown holds
\*   selectedSeries   : the selection set
\*   individualSeries : the individual items in insertion order, each with
\*                      the checked flag of its .series-checkbox
\*   seriesGroups     : the groups in insertion order, each with the checked
\*                      flags of its .sub-checkbox elements (sub) and the
\*                      checked / indeterminate flags of its .group-checkbox
\*   lastNotified     : the set the selection callback last received
\* The text of the dropdown button is not modelled.
\* ------------------------------------------------------------------------

NewDropdown ==
    [selectedSeries |-> {}, individualSeries |-> << >>, seriesGroups |-> << >>,
     lastNotified |-> {}]

\* isValidSeriesKey(id): id in SeriesDefinitions
isValidSeriesKey(id) ==
    id \in {"candlestick", "volume", "bb_upper", "bb_middle", "bb_lower",
            "dc_upper", "dc_middle", "dc_lower", "adx"}

\* toggleSeriesVisibility(key, visible)
toggleSeriesVisibility(st, key, visible) ==
    IF MapHas(st.seriesInstances, key)
    THEN [st EXCEPT !.chart =
            ChartSetVisible(@, MapGet(st.seriesInstances, key).series, visible)]
    ELSE st

RECURSIVE ToggleFrom(_, _, _)
ToggleFrom(st, selectedSeries, i) ==
    IF i > Len(st.seriesInstances)
    THEN st
    ELSE LET key == st.seriesInstances[i].key
         IN  ToggleFrom(toggleSeriesVisibility(st, key, key \in selectedSeries),
                        selectedSeries, i + 1)

\* the callback the SeriesManager constructor hands to the dropdown
onSelectionChange(st, selectedSeries) ==
    ToggleFrom(st, selectedSeries, 1)

\* A Set object handed to a client: its elements, and whether it is the very
\* object the filter keeps its selection in
NewSet(elements) ==
    [set |-> elements, shared |-> FALSE]

\* the argument of the callback: new Set(this.selectedSeries)
CallbackArgument(dd) ==
    NewSet(dd.selectedSeries)

\* updateDisplay(): the callback gets a copy of the selection
updateDisplay(st) ==
    [onSelectionChange(st, CallbackArgument(st.dropdown).set)
        EXCEPT !.dropdown.lastNotified = CallbackArgument(st.dropdown).set,
               !.callbacks = @ + 1]

\* a getter that returns the selection object itself
getSelectedSeriesAlias(dd) ==
    [set |-> dd.selectedSeries, shared |-> TRUE]

\* getSelectedSeries(): new Set(this.selectedSeries)
getSelectedSeries(dd) ==
    NewSet(dd.selectedSeries)

\* add(id) or delete(id) on a Set object a client holds: the elements after
SetToggle(object, id) ==
    IF id \in object.set THEN object.set \ {id} ELSE object.set \cup {id}

HasSeries(dd, id) ==
    \E i \in 1..Len(dd.individualSeries) : dd.individualSeries[i].item.id = id

HasGroup(dd, id) ==
    \E i \in 1..Len(dd.seriesGroups) : dd.seriesGroups[i].id = id

ItemIds(items) ==
    {items[i].id : i \in 1..Len(items)}

\* the branches of updateGroupCheckboxState on the two counts
GroupCheckboxState(checkedCount, totalCount) ==
    IF checkedCount = 0
    THEN [checked |-> FALSE, indeterminate |-> FALSE]
    ELSE IF checkedCount = totalCount /\ totalCount > 0
    THEN [checked |-> TRUE, indeterminate |-> FALSE]
    ELSE [checked |-> FALSE, indeterminate |-> TRUE]

CheckedCount(sub) ==
    Cardinality({i \in 1..Len(sub) : sub[i]})

\* updateGroupCheckboxState(groupId) on the group's own elements: the counts
\* are those of its .sub-checkbox elements
updateGroupCheckboxState(g) ==
    LET state == GroupCheckboxState(CheckedCount(g.sub), Len(g.sub))
    IN  [g EXCEPT !.checked = state.checked, !.indeterminate = state.indeterminate]

\* updateSelectedItems(checkbox) for a checkbox of id key and flag checked
updateSelectedItems(selectedSeries, key, checked) ==
    IF ~isValidSeriesKey(key)
    THEN selectedSeries
    ELSE IF checked
    THEN selectedSeries \cup {key}
    ELSE selectedSeries \ {key}

\* an addSeries that does not ask whether the id is already an item
addSeriesUnguarded(st, seriesItem) ==
    updateDisplay(
      [st EXCEPT
         !.dropdown.selectedSeries = @ \cup {seriesItem.id},
         !.dropdown.individualSeries =
             Append(@, [item |-> seriesItem, checked |-> TRUE])])

\* addSeries(seriesItem)
addSeries(st, seriesItem) ==
    IF HasSeries(st.dropdown, seriesItem.id)
    THEN st
    ELSE updateDisplay(
           [st EXCEPT
              !.dropdown.selectedSeries = @ \cup {seriesItem.id},
              !.dropdown.individualSeries =
                  Append(@, [item |-> seriesItem, checked |-> TRUE])])

\* createGroupElement: every sub-checkbox shows the selection, the group
\* checkbox the counts over the selection
createGroupElement(selectedSeries, seriesGroup) ==
    LET series == seriesGroup.seriesItems
        sub == [i \in 1..Len(series) |-> series[i].id \in selectedSeries]
        state == GroupCheckboxState(
                    Cardinality({i \in 1..Len(series) : series[i].id \in selectedSeries}),
                    Len(series))
    IN  [id |-> seriesGroup.id, name |-> seriesGroup.name, seriesItems |-> series,
         sub |-> sub, checked |-> state.checked, indeterminate |-> state.indeterminate]

\* addSeriesGroup(seriesGroup)
addSeriesGroup(st, seriesGroup) ==
    IF HasGroup(st.dropdown, seriesGroup.id)
    THEN st
    ELSE LET selected == st.dropdown.selectedSeries \cup ItemIds(seriesGroup.seriesItems)
         IN  updateDisplay(
               [st EXCEPT
                  !.dropdown.selectedSeries = selected,
                  !.dropdown.seriesGroups =
                      Append(@, createGroupElement(selected, seriesGroup))])

\* a removal that does not ask whether the id is an individual item
removeSeriesUnguarded(st, seriesId) ==
    LET Keep(e) == e.item.id # seriesId
    IN  updateDisplay(
          [st EXCEPT
             !.dropdown.selectedSeries = @ \ {seriesId},
             !.dropdown.individualSeries = SelectSeq(@, Keep)])

\* removeSeries(seriesId)
removeSeries(st, seriesId) ==
    LET Keep(e) == e.item.id # seriesId
    IN  IF HasSeries(st.dropdown, seriesId)
        THEN updateDisplay(
               [st EXCEPT
                  !.dropdown.selectedSeries = @ \ {seriesId},
                  !.dropdown.individualSeries = SelectSeq(@, Keep)])
        ELSE st

\* removeSeriesGroup(groupId)
removeSeriesGroup(st, groupId) ==
    LET Keep(g) == g.id # groupId
        Is(g) == g.id = groupId
        groupConfig == SelectSeq(st.dropdown.seriesGroups, Is)[1]
    IN  IF HasGroup(st.dropdown, groupId)
        THEN updateDisplay(
               [st EXCEPT
                  !.dropdown.selectedSeries = @ \ ItemIds(groupConfig.seriesItems),
                  !.dropdown.seriesGroups = SelectSeq(@, Keep)])
        ELSE st

RECURSIVE RemoveAllSeries(_, _, _)
RemoveAllSeries(st, ids, i) ==
    IF i > Len(ids) THEN st ELSE RemoveAllSeries(removeSeries(st, ids[i]), ids, i + 1)

RECURSIVE RemoveAllGroups(_, _, _)
RemoveAllGroups(st, ids, i) ==
    IF i > Len(ids) THEN st ELSE RemoveAllGroups(removeSeriesGroup(st, ids[i]), ids, i + 1)

RECURSIVE AddAllSeries(_, _, _)
AddAllSeries(st, items, i) ==
    IF i > Len(items) THEN st ELSE AddAllSeries(addSeries(st, items[i]), items, i + 1)

RECURSIVE AddAllGroups(_, _, _)
AddAllGroups(st, groups, i) ==
    IF i > Len(groups) THEN st ELSE AddAllGroups(addSeriesGroup(st, groups[i]), groups, i + 1)

\* an update that adds the new items without removing the current ones
updateWithoutRemoval(st, newIndividualSeries, newSeriesGroups) ==
    updateDisplay(AddAllGroups(AddAllSeries(st, newIndividualSeries, 1), newSeriesGroups, 1))

\* update(newIndividualSeries, newSeriesGroups)
update(st, newIndividualSeries, newSeriesGroups) ==
    LET currentIndividualIds ==
            [i \in 1..Len(st.dropdown.individualSeries) |->
                st.dropdown.individualSeries[i].item.id]
        currentGroupIds ==
            [i \in 1..Len(st.dropdown.seriesGroups) |-> st.dropdown.seriesGroups[i].id]
        removed  == RemoveAllSeries(st, currentIndividualIds, 1)
        removedG == RemoveAllGroups(removed, currentGroupIds, 1)
        added    == AddAllSeries(removedG, newIndividualSeries, 1)
        addedG   == AddAllGroups(added, newSeriesGroups, 1)
    IN  updateDisplay(addedG)

\* a setSelectedSeries that selects the ids of the argument whether or not
\* the filter has a checkbox for them
setSelectedSeriesWithAbsent(st, seriesIds) ==
    LET dd == st.dropdown
        individual == [i \in 1..Len(dd.individualSeries) |->
                         [dd.individualSeries[i] EXCEPT
                            !.checked = SeqIncludes(seriesIds, dd.individualSeries[i].item.id)]]
        Flags(g) == [i \in 1..Len(g.seriesItems) |->
                         SeqIncludes(seriesIds, g.seriesItems[i].id)]
        groups == [i \in 1..Len(dd.seriesGroups) |->
                     updateGroupCheckboxState(
                        [dd.seriesGroups[i] EXCEPT !.sub = Flags(dd.seriesGroups[i])])]
    IN  updateDisplay(
          [st EXCEPT
             !.dropdown.selectedSeries = { seriesIds[i] : i \in 1..Len(seriesIds) },
             !.dropdown.individualSeries = individual,
             !.dropdown.seriesGroups = groups])

\* setSelectedSeries(seriesIds)
setSelectedSeries(st, seriesIds) ==
    LET dd == st.dropdown
        individual == [i \in 1..Len(dd.individualSeries) |->
                         [dd.individualSeries[i] EXCEPT
                            !.checked = SeqIncludes(seriesIds, dd.individualSeries[i].item.id)]]
        Flags(g) == [i \in 1..Len(g.seriesItems) |->
                         SeqIncludes(seriesIds, g.seriesItems[i].id)]
        groups == [i \in 1..Len(dd.seriesGroups) |->
                     updateGroupCheckboxState(
                        [dd.seriesGroups[i] EXCEPT !.sub = Flags(dd.seriesGroups[i])])]
        shown == {dd.individualSeries[i].item.id : i \in 1..Len(dd.individualSeries)}
                 \cup UNION {ItemIds(dd.seriesGroups[i].seriesItems) :
                                i \in 1..Len(dd.seriesGroups)}
    IN  updateDisplay(
          [st EXCEPT
             !.dropdown.selectedSeries = {id \in shown : SeqIncludes(seriesIds, id)},
             !.dropdown.individualSeries = individual,
             !.dropdown.seriesGroups = groups])

\* clearAllSelections()
clearAllSelections(st) ==
    LET dd == st.dropdown
    IN  updateDisplay(
          [st EXCEPT
             !.dropdown.selectedSeries = {},
             !.dropdown.individualSeries =
                 [i \in 1..Len(dd.individualSeries) |->
                     [dd.individualSeries[i] EXCEPT !.checked = FALSE]],
             !.dropdown.seriesGroups =
                 [i \in 1..Len(dd.seriesGroups) |->
                     [dd.seriesGroups[i] EXCEPT
                        !.sub = [j \in 1..Len(dd.seriesGroups[i].sub) |-> FALSE],
                        !.checked = FALSE, !.indeterminate = FALSE]]])

RECURSIVE UpdateSelectedFrom(_, _, _, _)
UpdateSelectedFrom(selectedSeries, items, checked, i) ==
    IF i > Len(items)
    THEN selectedSeries
    ELSE UpdateSelectedFrom(updateSelectedItems(selectedSeries, items[i].id, checked),
                            items, checked, i + 1)


\* a group toggle that sets the checkboxes but not the selection
handleGroupCheckboxFlagsOnly(st, gi, checked) ==
    LET g == st.dropdown.seriesGroups[gi]
    IN  updateDisplay(
          [st EXCEPT
             !.dropdown.seriesGroups[gi] =
                 [g EXCEPT !.sub = [j \in 1..Len(g.sub) |-> checked],
                           !.checked = checked, !.indeterminate = FALSE]])

\* handleGroupCheckbox, for the .group-checkbox of group number gi whose
\* checked flag the browser has just set to checked
handleGroupCheckbox(st, gi, checked) ==
    LET g == st.dropdown.seriesGroups[gi]
    IN  updateDisplay(
          [st EXCEPT
             !.dropdown.selectedSeries = UpdateSelectedFrom(@, g.seriesItems, checked, 1),
             !.dropdown.seriesGroups[gi] =
                 [g EXCEPT !.sub = [j \in 1..Len(g.sub) |-> checked],
                           !.checked = checked, !.indeterminate = FALSE]])

\* a member toggle that leaves the checkbox of the group as it was
handleSubCheckboxOnly(st, gi, mi, checked) ==
    LET g == st.dropdown.seriesGroups[gi]
    IN  updateDisplay(
          [st EXCEPT
             !.dropdown.selectedSeries =
                 updateSelectedItems(@, g.seriesItems[mi].id, checked),
             !.dropdown.seriesGroups[gi].sub[mi] = checked])

\* handleSubCheckbox, for .sub-checkbox number mi of group number gi whose
\* checked flag the browser has just set to checked
handleSubCheckbox(st, gi, mi, checked) ==
    LET g == st.dropdown.seriesGroups[gi]
    IN  updateDisplay(
          [st EXCEPT
             !.dropdown.selectedSeries =
                 updateSelectedItems(@, g.seriesItems[mi].id, checked),
             !.dropdown.seriesGroups[gi] =
                 updateGroupCheckboxState([g EXCEPT !.sub[mi] = checked])])

\* an individual toggle that does not refresh the display
handleSeriesCheckboxSilent(st, i, checked) ==
    [st EXCEPT
       !.dropdown.selectedSeries =
           updateSelectedItems(@, st.dropdown.individualSeries[i].item.id, checked),
       !.dropdown.individualSeries[i].checked = checked]

\* handleSeriesCheckbox, for the .series-checkbox of individual item number
\* i whose checked flag the browser has just set to checked
handleSeriesCheckbox(st, i, checked) ==
    updateDisplay(
      [st EXCEPT
         !.dropdown.selectedSeries =
             updateSelectedItems(@, st.dropdown.individualSeries[i].item.id, checked),
         !.dropdown.individualSeries[i].checked = checked])

\* ------------------------------------------------------------------------
\* SeriesManager: cleanup, setSeriesData, updateUI, updateAll
\* ------------------------------------------------------------------------

RECURSIVE RemoveSeriesFrom(_, _, _)
RemoveSeriesFrom(c, instances, i) ==
    IF i > Len(instances)
    THEN c
    ELSE RemoveSeriesFrom(ChartRemoveSeries(c, instances[i].value.series), instances, i + 1)

\* cleanup(): every active series leaves the chart, the legends are dropped
cleanup(st) ==
    [st EXCEPT !.chart = RemoveSeriesFrom(@, st.seriesInstances, 1),
               !.legendsDiv = << >>]

\* String.prototype.toUpperCase on the two-letter group symbols
toUpperCase(str) ==
    CASE str = "ca" -> "CA"
      [] str = "vo" -> "VO"
      [] str = "bo" -> "BO"
      [] str = "do" -> "DO"
      [] str = "dm" -> "DM"
      [] str = "ae" -> "AE"
      [] str = "at" -> "AT"

\* markers as an else-if chain would give them: at most one per row
RECURSIVE createTradeEventMarkersExclusive(_)
createTradeEventMarkersExclusive(tradeEvents) ==
    IF tradeEvents = << >>
    THEN << >>
    ELSE LET e == Head(tradeEvents)
             Marker(position, color, shape, text) ==
                 [time |-> e.time, position |-> position, color |-> color,
                  shape |-> shape, text |-> text]
         IN  (CASE includes(e.event, "LongEntry") ->
                     << Marker("belowBar", "#2196F3", "arrowUp", "Long") >>
                [] includes(e.event, "ShortEntry") ->
                     << Marker("aboveBar", "#FF5733", "arrowDown", "Short") >>
                [] includes(e.event, "LongExit") ->
                     << Marker("belowBar", "#2196F3", "circle", "  ") >>
                [] includes(e.event, "ShortExit") ->
                     << Marker("aboveBar", "#FF5733", "square", "  ") >>
                [] OTHER -> << >>)
             \o createTradeEventMarkersExclusive(Tail(tradeEvents))

RECURSIVE createTradeEventMarkers(_)
createTradeEventMarkers(tradeEvents) ==
    IF tradeEvents = << >>
    THEN << >>
    ELSE LET e == Head(tradeEvents)
             Marker(position, color, shape, text) ==
                 [time |-> e.time, position |-> position, color |-> color,
                  shape |-> shape, text |-> text]
         IN  (IF includes(e.event, "LongEntry")
                THEN << Marker("belowBar", "#2196F3", "arrowUp", "Long") >> ELSE << >>)
             \o (IF includes(e.event, "ShortEntry")
                THEN << Marker("aboveBar", "#FF5733", "arrowDown", "Short") >> ELSE << >>)
             \o (IF includes(e.event, "LongExit")
                THEN << Marker("belowBar", "#2196F3", "circle", "  ") >> ELSE << >>)
             \o (IF includes(e.event, "ShortExit")
                THEN << Marker("aboveBar", "#FF5733", "square", "  ") >> ELSE << >>)
             \o createTradeEventMarkers(Tail(tradeEvents))

\* a marker step that raises when there are events and no price bars
addTradeEventMarkersOrRaise(st, parser) ==
    LET events == ParseTradeEvents(parser)
        series == MapGet(st.seriesInstances, "candlestick").series
    IN  IF ~SeqIncludes(parser.headers, "event")
        THEN [threw |-> FALSE, st |-> st]
        ELSE IF ~MapHas(st.seriesInstances, "candlestick")
        THEN [threw |-> TRUE, st |-> st]
        ELSE IF events.threw
        THEN [threw |-> TRUE, st |-> st]
        ELSE [threw |-> FALSE,
              st |-> [st EXCEPT !.chart =
                        ChartSetMarkers(@, series, createTradeEventMarkers(events.points))]]

\* addTradeEventMarkers(csvParser): [threw, st]
addTradeEventMarkers(st, parser) ==
    LET events == ParseTradeEvents(parser)
        series == MapGet(st.seriesInstances, "candlestick").series
    IN  IF ~SeqIncludes(parser.headers, "event")
        THEN [threw |-> FALSE, st |-> st]
        ELSE IF ~MapHas(st.seriesInstances, "candlestick")
        THEN [threw |-> FALSE, st |-> st]
        ELSE IF events.threw
        THEN [threw |-> TRUE, st |-> st]
        ELSE [threw |-> FALSE,
              st |-> [st EXCEPT !.chart =
                        ChartSetMarkers(@, series, createTradeEventMarkers(events.points))]]

\* the conversion setSeriesData picks for an instance
ParseFor(parser, key, seriesType) ==
    CASE seriesType = "Candlestick" -> ParseCandlestickData(parser)
      [] seriesType = "Histogram" -> ParseHistogramData(parser, key)
      [] seriesType = "Line" -> ParseLineData(parser, key)
      [] OTHER -> [threw |-> FALSE, points |-> << >>]

\* the loop of setSeriesData from entry i on: a conversion that throws ends
\* the loop (and updateAll) there
RECURSIVE SetSeriesDataFrom(_, _, _)
SetSeriesDataFrom(st, parser, i) ==
    IF i > Len(st.seriesInstances)
    THEN addTradeEventMarkers(st, parser)
    ELSE LET e == st.seriesInstances[i]
             parsed == ParseFor(parser, e.key, e.value.seriesType)
         IN  IF parsed.threw
             THEN [threw |-> TRUE, st |-> st]
             ELSE SetSeriesDataFrom(
                    [st EXCEPT
                       !.seriesInstances[i].value.data = parsed.points,
                       !.chart = ChartSetData(@, e.value.series, parsed.points)],
                    parser, i + 1)

\* setSeriesData(csvParser): [threw, st]
setSeriesData(st, parser) ==
    SetSeriesDataFrom(st, parser, 1)

NoGroup ==
    [id |-> "undefined", label |-> "undefined"]

\* the ChartItem updateUI builds for one instance
ChartItemOf(key, instance) ==
    LET sourceConfig == SeriesSourceConfigs(instance.seriesSource)
        indicator == sourceConfig.indicator
        suffix == instance.suffix
    IN  [id |-> key,
         name |-> "undefined",
         label |-> IF suffix # "" THEN sourceConfig.label \o " " \o suffix
                   ELSE sourceConfig.label,
         group |-> IF indicator = "undefined"
                   THEN NoGroup
                   ELSE IF suffix # ""
                   THEN [id |-> indicator \o "_" \o suffix,
                         label |-> Indicators(indicator) \o " " \o suffix]
                   ELSE [id |-> indicator, label |-> Indicators(indicator)]]

\* the legend group divs updateUI appends: one per source group in first
\* occurrence order, holding the legends of the instances of that group
RECURSIVE GroupLegends(_, _, _)
GroupLegends(instances, i, acc) ==
    IF i > Len(instances)
    THEN acc
    ELSE LET sourceGroup == SourceGroup(instances[i].value.seriesSource)
             legend == instances[i].value.legendElement
             at == {j \in 1..Len(acc) : acc[j].sourceGroup = sourceGroup}
         IN  GroupLegends(instances, i + 1,
                IF at = {}
                THEN Append(acc, [sourceGroup |-> sourceGroup,
                                  symbol |-> toUpperCase(SubSeq(sourceGroup, 1, 2)) \o ":",
                                  legends |-> << legend >>])
                ELSE [acc EXCEPT ![CHOOSE j \in at : TRUE].legends = Append(@, legend)])

\* updateUI()
updateUI(st) ==
    LET chartItems == [i \in 1..Len(st.seriesInstances) |->
                         ChartItemOf(st.seriesInstances[i].key, st.seriesInstances[i].value)]
        called   == [st EXCEPT !.chart.log = Append(@, "update")]
        filtered == update(called, chartItems, << >>)
    IN  [filtered EXCEPT !.legendsDiv = @ \o GroupLegends(st.seriesInstances, 1, << >>),
                         !.chart = ChartFitContent(@)]

\* seriesInstances.size === 0
DiscoveryIsEmpty(instances) ==
    Len(instances) = 0

\* an updateAll that tears the old series down before it discovers
updateAllCleanupFirst(st, csvText) ==
    LET parser  == ParseCSV(csvText)
        cleaned == cleanup(st)
        found   == addSeriesFromCsv(cleaned.chart, st.registry, parser.headers)
        adopted == [cleaned EXCEPT !.chart = [found.chart EXCEPT !.log = Append(@, "adopt")],
                                   !.registry = found.configs,
                                   !.seriesInstances = found.seriesInstances]
        pushed  == setSeriesData(adopted, parser)
    IN  IF parser.threw
        THEN [result |-> "throw", st |-> st, built |-> << >>]
        ELSE IF DiscoveryIsEmpty(found.seriesInstances)
        THEN [result |-> "false",
              st |-> [cleaned EXCEPT !.chart = found.chart, !.registry = found.configs],
              built |-> found.built]
        ELSE IF pushed.threw
        THEN [result |-> "throw", st |-> pushed.st, built |-> found.built]
        ELSE [result |-> "true", st |-> updateUI(pushed.st), built |-> found.built]

\* updateAll(csvText): [result, st, built]; result is "true", "false" or
\* "throw" (an Error leaves updateAll)
updateAll(st, csvText) ==
    LET parser  == ParseCSV(csvText)
        found   == addSeriesFromCsv(st.chart, st.registry, parser.headers)
        cleaned == cleanup([st EXCEPT !.chart = found.chart, !.registry = found.configs])
        adopted == [cleaned EXCEPT !.seriesInstances = found.seriesInstances,
                                   !.chart.log = Append(@, "adopt")]
        pushed  == setSeriesData(adopted, parser)
    IN  IF parser.threw
        THEN [result |-> "throw", st |-> st, built |-> << >>]
        ELSE IF DiscoveryIsEmpty(found.seriesInstances)
        THEN [result |-> "false",
              st |-> [st EXCEPT !.chart = found.chart, !.registry = found.configs],
              built |-> found.built]
        ELSE IF pushed.threw
        THEN [result |-> "throw", st |-> pushed.st, built |-> found.built]
        ELSE [result |-> "true", st |-> updateUI(pushed.st), built |-> found.built]

\* priceFormatter().format on the values the inputs use: two decimals
Format(value) ==
    CASE value = "1" -> "1.00"
      [] value = "2.5" -> "2.50"
      [] OTHER -> value

\* the text formatData of a source returns for a point without values
IdleLabel(s) ==
    CASE s = "candlestick" -> "* O * H * L * C"
      [] s = "volume" -> "* V"
      [] s \in { "bb_upper", "dc_upper" } -> "* U"
      [] s \in { "bb_middle", "dc_middle" } -> "* M"
      [] s \in { "bb_lower", "dc_lower" } -> "* L"
      [] s = "adx" -> "* ADX"
      [] s = "plusDi" -> "* +DI"
      [] s = "minusDi" -> "* -DI"
      [] s = "aer" -> "* AER"
      [] s = "atr" -> "* ATR"

\* SeriesSourceConfigs[s].formatData(priceFormatter, dataPoint), the bullet
\* written as an asterisk
formatData(s, dataPoint) ==
    IF s = "candlestick"
    THEN "* O_" \o Format(dataPoint.value[1]) \o " * H_" \o Format(dataPoint.value[2])
         \o " * L_" \o Format(dataPoint.value[3]) \o " * C_" \o Format(dataPoint.value[4])
    ELSE IdleLabel(s) \o "_" \o Format(dataPoint.value)

\* param.seriesData.get(series): the points the series has at the time of
\* the pointer, none or one
SeriesDataGet(c, h, time) ==
    SelectSeq(c.opts[h].data, LAMBDA point : point.time = time)

\* a handler that writes the idle text when the series has no point
crosshairMoveHandlerWithIdle(st, time) ==
    IF time = "undefined"
    THEN st
    ELSE [st EXCEPT !.seriesInstances =
            [i \in 1..Len(st.seriesInstances) |->
                LET instance == st.seriesInstances[i].value
                    dataPoint == SeriesDataGet(st.chart, instance.series, time)
                IN  IF dataPoint # << >>
                    THEN [st.seriesInstances[i] EXCEPT !.value.textContent =
                            formatData(instance.seriesSource, dataPoint[1])]
                    ELSE [st.seriesInstances[i] EXCEPT !.value.textContent =
                            IdleLabel(instance.seriesSource)]]]

\* crosshairMoveHandler(param): without a time nothing happens; an instance
\* whose series has no point at the time keeps the text it had
crosshairMoveHandler(st, time) ==
    IF time = "undefined"
    THEN st
    ELSE [st EXCEPT !.seriesInstances =
            [i \in 1..Len(st.seriesInstances) |->
                LET instance == st.seriesInstances[i].value
                    dataPoint == SeriesDataGet(st.chart, instance.series, time)
                IN  IF dataPoint # << >>
                    THEN [st.seriesInstances[i] EXCEPT !.value.textContent =
                            formatData(instance.seriesSource, dataPoint[1])]
                    ELSE st.seriesInstances[i]]]

\* ------------------------------------------------------------------------
\* Inputs
\* ------------------------------------------------------------------------

\* a data row with one cell per column
RowFor(headers) ==
    [i \in 1..Len(headers) |->
        CASE headers[i] = "time" -> "2024-01-01"
          [] headers[i] = "event" -> "LongEntry"
          [] OTHER -> "1"]

HeaderRows ==
    { << "time", "open", "high", "low", "close", "volume" >>,
      << "time", "bb_upper_20", "bb_upper_50" >>,
      << "time", "close" >>,
      << "time", "adx", "plusDi", "aer" >>,
      << "time", "open", "high", "low", "close", "adx", "plusDi", "aer" >>,
      << "time", "aer", "adx_14" >>,
      << "time", "adx", "adx" >>,
      << "time", "bb_upper_1", "bb_upper_2", "bb_upper_3", "bb_upper_4" >>,
      << "open", "high", "low", "close", "volume" >>,
      << "time", "open", "high", "low", "close", "event" >>,
      << "time", "candlestick_x", "volume" >>,
      << "time", "open", "high", "low", "close", "candlestick_x" >>,
      << "time", "adx", "event" >>,
      << "time", "aer", "aer_2" >> }

\* the labels of the two rows of a text with trade events
EventLabels ==
    { << "LongEntryShortExit", "hold" >>,
      << "ShortEntry LongExit", "LongEntry" >>,
      << "LongEntry ShortEntry LongExit ShortExit", "ShortExit" >> }

\* texts with price bars and two rows of trade events, in time order
EventTexts ==
    { << << "time", "open", "high", "low", "close", "event" >>,
         << "1700000000", "1", "1", "1", "1", l[1] >>,
         << "2024-01-01", "1", "1", "1", "1", l[2] >> >> : l \in EventLabels }

OhlcvCsv ==
    << << "time", "open", "high", "low", "close", "volume" >>,
       RowFor(<< "time", "open", "high", "low", "close", "volume" >>) >>

VolumeThenRaisingCsv ==
    << << "time", "volume", "candlestick_x" >>,
       RowFor(<< "time", "volume", "candlestick_x" >>) >>

\* texts with one usable row, texts with trade events, and texts that decode
\* to no usable row: the empty text, a header row alone, rows with the wrong
\* number of cells
CsvTexts ==
    { << h, RowFor(h) >> : h \in HeaderRows }
    \cup EventTexts
    \cup { << >>,
           << << "time", "adx" >> >>,
           << << "time", "close" >> >>,
           << << "time", "adx" >>, << "1" >> >>,
           << << "time", "close" >>, << "1" >> >>,
           << << "time", "volume" >>, << "1" >>, << "2024-01-01", "2.5" >> >> }

\* the program's state when an operation starts; callbacks counts the calls
\* of the selection-change callback the operation makes
St ==
    [chart |-> chart, seriesInstances |-> seriesInstances,
     legendsDiv |-> legendsDiv, dropdown |-> dropdown, registry |-> registry,
     callbacks |-> 0]

Adopt(st) ==
    /\ chart' = st.chart
    /\ seriesInstances' = st.seriesInstances
    /\ legendsDiv' = st.legendsDiv
    /\ dropdown' = st.dropdown
    /\ registry' = st.registry

\* ------------------------------------------------------------------------
\* Behaviour
\* ------------------------------------------------------------------------

\* number of file selections and refresh clicks of a behaviour
MaxLoads == 2

\* load 0 is the initial load of the page, the others are begun by listeners
Loads == 0..MaxLoads

DefaultSource == "data/btc_usdt_nov_5d.csv"

NoLoad ==
    [pc |-> "none", source |-> "none", from |-> "none", csvText |-> << >>,
     step |-> 0, result |-> "none"]

\* the page script evaluated up to its first await: the initial load of the
\* default source is awaiting its text, no listener is registered yet
MainStart ==
    [pc |-> "initialLoad",
     lastLoadedSource |-> DefaultSource,
     loads |-> [t \in Loads |->
                  IF t = 0
                  THEN [NoLoad EXCEPT !.pc = "awaiting", !.source = DefaultSource,
                                      !.from = "initial"]
                  ELSE NoLoad]]

\* new SeriesManager(chart, legendsDiv) on a new chart: an empty Map, and a
\* dropdown whose constructor has called the callback with the empty set
Init ==
    /\ chart = NewChart
    /\ seriesInstances = << >>
    /\ legendsDiv = << >>
    /\ dropdown = NewDropdown
    /\ built = << >>
    /\ last = [op |-> "new", csvText |-> << >>, result |-> "none"]
    /\ calls = 0
    /\ ops = 0
    /\ held = [set |-> {}, shared |-> FALSE, from |-> "none"]
    /\ main = MainStart
    /\ registry = NewRegistry

\* seriesManager.updateAll(csvText)
UpdateAll(csvText) ==
    /\ calls < MaxCalls
    /\ LET r == updateAll(St, csvText)
       IN  /\ Adopt(r.st)
           /\ built' = r.built
           /\ last' = [op |-> "updateAll", csvText |-> csvText, result |-> r.result]
    /\ calls' = calls + 1
    /\ UNCHANGED <<ops, held, main>>

\* the user clicks the checkbox of individual item number i
SeriesCheckboxChange(i) ==
    /\ ops < MaxOps
    /\ Adopt(handleSeriesCheckbox(St, i, ~dropdown.individualSeries[i].checked))
    /\ last' = [op |-> "seriesCheckbox", csvText |-> << >>, result |-> "none"]
    /\ ops' = ops + 1
    /\ UNCHANGED <<built, calls, held, main>>

Next ==
    \/ \E csvText \in CsvTexts : UpdateAll(csvText)
    \/ \E i \in 1..Len(dropdown.individualSeries) : SeriesCheckboxChange(i)

Spec == Init /\ [][Next]_vars

\* ------------------------------------------------------------------------
\* Pointer queries
\* ------------------------------------------------------------------------

\* the texts loaded before a pointer query: bars and volume, two rows of
\* bars with events, a volume column next to a column candlestick_x whose
\* conversion raises after the volume series has its data, and a text
\* without a usable row
PointerTexts ==
    { OhlcvCsv, VolumeThenRaisingCsv,
      << << "time", "adx" >>, << "1" >> >> }
    \cup EventTexts

\* param.time: none when the pointer is over no bar
PointerTimes ==
    { "undefined", "1700000000", "1704067200" }

\* the times of the time scale: those of the points of the series on the chart
TimeScale(c) ==
    UNION { { c.opts[h].data[i].time : i \in 1..Len(c.opts[h].data) } :
              h \in ChartSeries(c) }

\* chart.subscribeCrosshairMove((param) => seriesManager.crosshairMoveHandler(param));
\* the pointer is over a bar of the time scale or over none
CrosshairMove(time) ==
    /\ ops < MaxOps
    /\ time \in TimeScale(chart) \cup { "undefined" }
    /\ Adopt(crosshairMoveHandler(St, time))
    /\ last' = [op |-> "crosshairMove", csvText |-> << >>, result |-> "none",
                time |-> time]
    /\ ops' = ops + 1
    /\ UNCHANGED <<built, calls, held, main>>

NextOfPointer ==
    \/ \E csvText \in PointerTexts : UpdateAll(csvText)
    \/ \E time \in PointerTimes : CrosshairMove(time)

SpecOfPointer == Init /\ [][NextOfPointer]_vars

\* ------------------------------------------------------------------------
\* The factory called on its own
\* ------------------------------------------------------------------------

\* number of factory calls of a behaviour
MaxCreates == 2

\* the visual kinds a call can name: the three known ones and another
SeriesTypes ==
    { "Candlestick", "Histogram", "Line", "Area" }

\* a source key for a call of a kind
SourceOfType(seriesType) ==
    CASE seriesType = "Candlestick" -> "candlestick"
      [] seriesType = "Histogram" -> "volume"
      [] OTHER -> "adx"

\* seriesOptions.color of a call: none, or a color of the caller
OptionColors ==
    { "undefined", "#123456" }

\* the paneIndex argument of a call: omitted, the main pane, another pane
PaneIndexes ==
    { << >>, << 0 >>, << 1 >> }

\* the suffix of the n-th call, which makes its key
SuffixOfCall(n) ==
    CASE n = 1 -> "_1" [] n = 2 -> "_2" [] n = 3 -> "_3" [] OTHER -> "_4"

\* the occurrence counters so far, from the log of the recorded calls
SourceCountOf(log) ==
    [s \in {SourceKeys[i] : i \in 1..Len(SourceKeys)} |->
        Cardinality({i \in 1..Len(log) : log[i].seriesSource = s})]

\* createSeriesInstance(...) followed by the caller's
\* if (seriesInstance) { seriesInstances.set(key, seriesInstance); sourceCount[source]++ }
CreateSeriesInstance(seriesType, color, paneIndex) ==
    /\ calls < MaxCreates
    /\ LET source == SourceOfType(seriesType)
           suffix == SuffixOfCall(calls + 1)
           acc    == [chart |-> chart, seriesInstances |-> seriesInstances,
                      sourceCount |-> SourceCountOf(built), built |-> built,
                      configs |-> registry]
           made   == createSeriesInstance(chart, source, seriesType, color,
                                          paneIndex, suffix)
           next   == Record(acc, calls + 1, source \o suffix, source, color,
                            paneIndex, made)
       IN  /\ chart' = next.chart
           /\ seriesInstances' = next.seriesInstances
           /\ built' = next.built
           /\ registry' = next.configs
           /\ last' = [op |-> "createSeriesInstance", csvText |-> << >>,
                       result |-> IF made.created THEN "instance" ELSE "undefined",
                       seriesType |-> seriesType, color |-> color,
                       paneIndex |-> paneIndex, key |-> source \o suffix]
    /\ calls' = calls + 1
    /\ UNCHANGED <<legendsDiv, dropdown, ops, held, main>>

NextOfFactory ==
    \E seriesType \in SeriesTypes, color \in OptionColors, paneIndex \in PaneIndexes :
        CreateSeriesInstance(seriesType, color, paneIndex)

SpecOfFactory == Init /\ [][NextOfFactory]_vars

\* ------------------------------------------------------------------------
\* The conversions of CSVParser called on their own
\* ------------------------------------------------------------------------

\* time cells: a date, a timestamp in seconds, and a cell that is neither
ParserTimes ==
    { "2024-01-01", "1700000000", "x" }

\* value cells: two numbers and a cell that is no number
ParserValues ==
    { "1", "2.5", "x" }

ParserHeaders ==
    << "time", "open", "high", "low", "close", "volume" >>

ParserRows ==
    { << t, v, v, v, v, w >> : t \in ParserTimes, v \in ParserValues, w \in { "1", "x" } }

\* texts of one or two data rows under the header
ParserTexts ==
    { << ParserHeaders, r >> : r \in ParserRows }
    \cup { << ParserHeaders, r, << "2024-01-01", "1", "1", "1", "1", "1" >> >> : r \in ParserRows }

\* new CSVParser(csvText) for a text of ParserTexts
InitOfParser ==
    /\ chart = NewChart
    /\ seriesInstances = << >>
    /\ legendsDiv = << >>
    /\ dropdown = NewDropdown
    /\ built = << >>
    /\ \E csvText \in ParserTexts :
          last = [op |-> "new CSVParser", csvText |-> csvText, result |-> "none",
                  points |-> << >>]
    /\ calls = 0
    /\ ops = 0
    /\ held = [set |-> {}, shared |-> FALSE, from |-> "none"]
    /\ main = MainStart
    /\ registry = NewRegistry

\* the call of a conversion on the parser, and what it returned
Converted(op, parsed) ==
    /\ last.op = "new CSVParser"
    /\ last' = [op |-> op, csvText |-> last.csvText,
                result |-> IF parsed.threw THEN "throw" ELSE "points",
                points |-> parsed.points]
    /\ UNCHANGED <<chart, seriesInstances, legendsDiv, dropdown, built, calls, ops,
                   held, main, registry>>

\* csvParser.parseHistogramData(requiredColumn)
ParseHistogramDataCall(requiredColumn) ==
    Converted("parseHistogramData",
              ParseHistogramData(ParseCSV(last.csvText), requiredColumn))

\* csvParser.parseCandlestickData()
ParseCandlestickDataCall ==
    Converted("parseCandlestickData", ParseCandlestickData(ParseCSV(last.csvText)))

NextOfParser ==
    \/ \E requiredColumn \in { "volume", "adx" } : ParseHistogramDataCall(requiredColumn)
    \/ ParseCandlestickDataCall

SpecOfParser == InitOfParser /\ [][NextOfParser]_vars

\* a conversion returned its points
Returned ==
    /\ last.op \in { "parseHistogramData", "parseCandlestickData" }
    /\ last.result = "points"

\* C36: parseHistogramData and parseCandlestickData return only rows whose
\* time, and for the histogram whose value, could be parsed: no point of the
\* result has a not-a-number time, and no point of a histogram result a
\* not-a-number value.
C36_NoUnparsedRowInResult ==
    Returned =>
        \A i \in 1..Len(last.points) :
            /\ last.points[i].time # "NaN"
            /\ last.op = "parseHistogramData" => last.points[i].value # "NaN"

\* What the two conversions return: one point for every row, in the order of
\* the rows.
OnePointPerRow ==
    Returned =>
        /\ Len(last.points) = Len(last.csvText) - 1
        /\ \A i \in 1..Len(last.points) :
              last.points[i].time = NormalizeTime(last.csvText[i + 1][1])

\* a histogram result with a point whose time is not a number, from a row
\* whose value is a number
HistogramPointWithoutTime ==
    /\ last.op = "parseHistogramData"
    /\ last.result = "points"
    /\ Len(last.points) = 2
    /\ last.points[1].time = "NaN"
    /\ last.points[1].value = "1"

\* a price-bar result with a point whose time is not a number
CandlestickPointWithoutTime ==
    /\ last.op = "parseCandlestickData"
    /\ last.result = "points"
    /\ last.points[1].time = "NaN"

\* ------------------------------------------------------------------------
\* The page script (main.ts): data loads
\* ------------------------------------------------------------------------

\* the files the user can select
Files == { "A.csv", "B.csv" }

\* what a load can deliver: '' when reading or fetching failed (the catch of
\* loadChartData), a text with bars, a text with one indicator, a text
\* whose only row has too few cells, and a text without a matching column
LoadTexts ==
    { << >>,
      << << "time", "open", "high", "low", "close", "volume" >>,
         RowFor(<< "time", "open", "high", "low", "close", "volume" >>) >>,
      << << "time", "adx" >>, RowFor(<< "time", "adx" >>) >>,
      << << "time", "adx" >>, << "1" >> >>,
      << << "time", "close" >>, RowFor(<< "time", "close" >>) >> }

\* the statements of updateAll in order
UpdateAllSteps ==
    << "addSeriesFromCsv", "cleanup", "adopt", "setSeriesData", "updateUI" >>

\* as if updateAll awaited between discovery and cleanup
AwaitsAfterDiscovery ==
    { 2 }

\* the steps of updateAll before which it awaits: updateAll and the methods
\* it calls are not async and contain no await
AwaitsInUpdateAll ==
    { }

\* the step at which an updateAll resumed after step j suspends next, or
\* Len(UpdateAllSteps) + 1 when it runs to its end
NextAwait(j) ==
    LET later == { k \in AwaitsInUpdateAll : k > j /\ k <= Len(UpdateAllSteps) }
    IN  IF later = { } THEN Len(UpdateAllSteps) + 1
        ELSE CHOOSE k \in later : \A m \in later : k <= m

FreeLoads ==
    { t \in Loads : t > 0 /\ main.loads[t].pc = "none" }

NextLoad ==
    CHOOSE t \in FreeLoads : \A u \in FreeLoads : t <= u

ManagerUnchanged ==
    UNCHANGED <<chart, seriesInstances, legendsDiv, dropdown, built, last, calls,
                ops, held, registry>>

\* fileInput 'change' with a file: the listener runs up to the await in
\* loadChartData(file)
FileInputChange(file) ==
    /\ main.pc = "listening"
    /\ FreeLoads # { }
    /\ main' = [main EXCEPT !.loads[NextLoad] =
                    [NoLoad EXCEPT !.pc = "awaiting", !.source = file,
                                   !.from = "fileInput"]]
    /\ ManagerUnchanged

\* refreshButton 'click': the listener runs up to the await in
\* loadChartData(lastLoadedSource)
RefreshClick ==
    /\ main.pc = "listening"
    /\ FreeLoads # { }
    /\ main' = [main EXCEPT !.loads[NextLoad] =
                    [NoLoad EXCEPT !.pc = "awaiting",
                                   !.source = main.lastLoadedSource,
                                   !.from = "refresh"]]
    /\ ManagerUnchanged

\* source.text() or CSVLoader.loadCSVText(source) settles: loadChartData
\* returns the text, or '' from its catch
TextArrives(t, csvText) ==
    /\ main.loads[t].pc = "awaiting"
    /\ main' = [main EXCEPT !.loads[t].pc = "settled", !.loads[t].csvText = csvText]
    /\ ManagerUnchanged

\* a file listener that stores the file whatever updateAll returned
AfterUpdateAllAlwaysStores(m, t, result) ==
    LET load == m.loads[t]
        m1 == [m EXCEPT !.loads[t].pc = "done", !.loads[t].step = 0,
                        !.loads[t].result = result]
    IN  CASE load.from = "initial" ->
                [m1 EXCEPT !.pc = IF result = "throw" THEN "failed" ELSE "listening"]
          [] load.from = "fileInput" /\ result # "throw" ->
                [m1 EXCEPT !.lastLoadedSource = load.source]
          [] OTHER -> m1

\* what follows updateAll in the code that awaited load t: the initial load
\* goes on to register the listeners unless updateAll raised, the file
\* listener stores the file when updateAll returned true
AfterUpdateAll(m, t, result) ==
    LET load == m.loads[t]
        m1 == [m EXCEPT !.loads[t].pc = "done", !.loads[t].step = 0,
                        !.loads[t].result = result]
    IN  CASE load.from = "initial" ->
                [m1 EXCEPT !.pc = IF result = "throw" THEN "failed" ELSE "listening"]
          [] load.from = "fileInput" /\ result = "true" ->
                [m1 EXCEPT !.lastLoadedSource = load.source]
          [] OTHER -> m1

\* the code that awaited load t continues: it calls updateAll, or goes on
\* with an updateAll that had suspended, up to the next await
Resume(t) ==
    /\ main.loads[t].pc \in { "settled", "inUpdateAll" }
    /\ LET load == main.loads[t]
           stop == NextAwait(load.step)
       IN  IF stop <= Len(UpdateAllSteps)
           THEN /\ main' = [main EXCEPT !.loads[t].pc = "inUpdateAll",
                                          !.loads[t].step = stop]
                /\ ManagerUnchanged
           ELSE LET r == updateAll(St, load.csvText)
                IN  /\ Adopt(r.st)
                    /\ built' = r.built
                    /\ last' = [op |-> "updateAll", csvText |-> load.csvText,
                                result |-> r.result]
                    /\ calls' = calls + 1
                    /\ main' = AfterUpdateAll(main, t, r.result)
                    /\ UNCHANGED <<ops, held>>

NextOfMain ==
    \/ \E file \in Files : FileInputChange(file)
    \/ RefreshClick
    \/ \E t \in Loads, csvText \in LoadTexts : TextArrives(t, csvText)
    \/ \E t \in Loads : Resume(t)

SpecOfMain == Init /\ [][NextOfMain]_vars

\* C18: when a load's updateAll begins, no other load is inside an updateAll
\* that has begun and not finished, and the updateAll that begins has
\* finished when the step ends: two resynchronizations never interleave,
\* however many loads are pending.
C18_UpdateAllNeverInterleaves ==
    [][ \A t \in Loads :
          (Resume(t) /\ main.loads[t].pc = "settled") =>
              /\ \A u \in Loads : main.loads[u].pc # "inUpdateAll"
              /\ \A u \in Loads : main'.loads[u].pc # "inUpdateAll"
              /\ main'.loads[t].pc = "done" ]_vars

\* load 2, begun after load 1, has finished its updateAll while load 1
\* is still waiting to run its own
C18_Witness ==
    /\ main.loads[2].pc = "done"
    /\ main.loads[1].pc = "settled"
    /\ main.loads[2].result = "true"

\* load t finishes in the step from this state to the next
Completes(t) ==
    /\ main.loads[t].pc # "done"
    /\ main'.loads[t].pc = "done"

\* the files whose load from the file input has returned true
FilesLoaded ==
    { main.loads[t].source :
        t \in { t \in Loads : /\ main.loads[t].pc = "done"
                               /\ main.loads[t].from = "fileInput"
                               /\ main.loads[t].result = "true" } }

\* C38: lastLoadedSource changes only when a load from the file input ends
\* with updateAll returning true, and then to that file; a load that ends
\* with false or with an Error leaves it as it was; and a refresh loads
\* lastLoadedSource, which is the default source or a file whose load has
\* returned true.
C38_SourceKeptUnlessFileLoaded ==
    [][ /\ \A t \in Loads :
              Completes(t) =>
                  IF main.loads[t].from = "fileInput" /\ main'.loads[t].result = "true"
                  THEN main'.lastLoadedSource = main.loads[t].source
                  ELSE main'.lastLoadedSource = main.lastLoadedSource
        /\ (\A t \in Loads : ~Completes(t))
              => main'.lastLoadedSource = main.lastLoadedSource
        /\ \A t \in Loads :
              ( /\ main.loads[t].pc = "none"
                /\ main'.loads[t].from = "refresh" )
              => /\ main'.loads[t].source = main.lastLoadedSource
                 /\ main.lastLoadedSource \in { DefaultSource } \cup FilesLoaded ]_vars

\* C38 witness: after the load of one file has returned true, the load of
\* another file has failed, and lastLoadedSource is still the first file
C38_Witness ==
    /\ main.loads[1].pc = "done"
    /\ main.loads[1].from = "fileInput"
    /\ main.loads[1].result = "true"
    /\ main.loads[2].pc = "done"
    /\ main.loads[2].from = "fileInput"
    /\ main.loads[2].result \in { "false", "throw" }
    /\ main.loads[2].source # main.loads[1].source
    /\ main.lastLoadedSource = main.loads[1].source
    /\ last.csvText = main.loads[2].csvText

\* a refresh after the load of a file has failed loads the default source
C38_WitnessRefresh ==
    /\ main.loads[1].pc = "done"
    /\ main.loads[1].from = "fileInput"
    /\ main.loads[1].result = "throw"
    /\ main.loads[2].from = "refresh"
    /\ main.loads[2].source = DefaultSource

\* ------------------------------------------------------------------------
\* Properties of updateAll
\* ------------------------------------------------------------------------

Parsed(csvText) ==
    ParseCSV(csvText)

Decodes(csvText) ==
    ~Parsed(csvText).threw

Matches(header) ==
    MatchingSource(header) # << >>

\* the column names of a text: the cells of its first line
ColumnNames(csvText) ==
    IF Len(csvText) = 0 THEN << >> ELSE csvText[1]

\* the text has column names, none of them matches a source key, and the
\* four price columns are not all present
NoMatchingColumns(csvText) ==
    /\ Len(ColumnNames(csvText)) > 0
    /\ ~allOhlcPresent(ColumnNames(csvText))
    /\ \A i \in 1..Len(ColumnNames(csvText)) : ~Matches(ColumnNames(csvText)[i])

\* N: the matching columns, plus one when all four price columns are present
ExpectedInstances(headers) ==
    Cardinality({i \in 1..Len(headers) : Matches(headers[i])})
    + (IF allOhlcPresent(headers) THEN 1 ELSE 0)

\* loads 1 and 2, requested in this order by the user, have both finished
\* with updateAll returning true
BothLoaded ==
    /\ main.loads[1].pc = "done"
    /\ main.loads[2].pc = "done"
    /\ main.loads[1].result = "true"
    /\ main.loads[2].result = "true"

\* C39: when the user has requested a source and then another one, and both
\* loads have finished, the active instances are those of the text of the
\* later request and lastLoadedSource is its source, in whichever order the
\* two loads have finished.
C39_LaterRequestWins ==
    BothLoaded =>
        /\ last.csvText = main.loads[2].csvText
        /\ main.lastLoadedSource = main.loads[2].source

\* What the code gives: the load that finishes last wins.  A load that ends
\* with true leaves the instances of its own text, and its file in
\* lastLoadedSource when it came from the file input.
LastFinishedLoadWins ==
    [][ \A t \in Loads :
          (Completes(t) /\ main'.loads[t].result = "true")
              => /\ last'.csvText = main.loads[t].csvText
                 /\ Cardinality(MapKeys(seriesInstances'))
                       = ExpectedInstances(ColumnNames(main.loads[t].csvText))
                 /\ main.loads[t].from = "fileInput"
                       => main'.lastLoadedSource = main.loads[t].source ]_vars

\* two files requested one after the other, the second finished first: the
\* chart and lastLoadedSource are those of the first
EarlierRequestWon ==
    /\ BothLoaded
    /\ main.loads[1].from = "fileInput"
    /\ main.loads[2].from = "fileInput"
    /\ main.loads[1].source # main.loads[2].source
    /\ main.loads[1].csvText # main.loads[2].csvText
    /\ last.csvText = main.loads[1].csvText
    /\ main.lastLoadedSource = main.loads[1].source

\* a file and then a refresh of the default source: the chart shows the
\* default source and lastLoadedSource is the file
RefreshOverFile ==
    /\ BothLoaded
    /\ main.loads[1].from = "fileInput"
    /\ main.loads[2].from = "refresh"
    /\ main.loads[2].source = DefaultSource
    /\ main.loads[1].csvText # main.loads[2].csvText
    /\ last.csvText = main.loads[2].csvText
    /\ main.lastLoadedSource = main.loads[1].source

JustCalled ==
    last.op = "updateAll"

Succeeded ==
    JustCalled /\ last.result = "true"

ProgramState ==
    <<chart, seriesInstances, legendsDiv, dropdown>>

\* C1: an updateAll on a text whose column names match no source key and do
\* not include all four price columns returns false and leaves the active
\* instance set, the series on the chart, the legends and the filter (items,
\* checkboxes, selection) exactly as they were.
C1_NoMatchRollsBack ==
    [][ ( /\ calls' = calls + 1
          /\ NoMatchingColumns(last'.csvText) )
        => ( /\ last'.result = "false"
             /\ UNCHANGED ProgramState ) ]_vars

\* The rollback itself: on such a text with a second line, which the parser
\* accepts, updateAll returns false and changes nothing.
RollbackWhenDecoded ==
    [][ ( /\ calls' = calls + 1
          /\ Decodes(last'.csvText)
          /\ NoMatchingColumns(last'.csvText) )
        => ( /\ last'.result = "false"
             /\ UNCHANGED ProgramState ) ]_vars

\* C2: between calls the series on the chart are exactly the series the
\* active instances hold.
C2_ChartHoldsExactlyActiveSeries ==
    ChartSeries(chart) = MapSeries(seriesInstances)

\* C3: after a successful updateAll the number of active instances is N, the
\* number of matching columns plus one when all four price columns are there.
C3_InstanceCountIsN ==
    Succeeded =>
        Len(seriesInstances) = ExpectedInstances(Parsed(last.csvText).headers)

\* where a call left the active instances: per instance its key, the color
\* of its series and the index of the pane its series is on
Placed(c, instances) ==
    [i \in 1..Len(instances) |->
        [key |-> instances[i].key,
         color |-> c.opts[instances[i].value.series].color,
         paneIndex |-> PaneIndexOf(c, instances[i].value.series)]]

\* a manager right after construction on an empty chart
Fresh ==
    [chart |-> NewChart, seriesInstances |-> << >>,
     legendsDiv |-> << >>, dropdown |-> NewDropdown, registry |-> NewRegistry,
     callbacks |-> 0]

\* C4: the color and the pane index a successful updateAll gives each
\* instance depend on the input text alone: they are those the same text
\* gets from a manager on a new chart, whatever was active before the call.
C4_AssignmentRepeatable ==
    Succeeded =>
        Placed(chart, seriesInstances) =
            LET first == updateAll(Fresh, last.csvText).st
            IN  Placed(first.chart, first.seriesInstances)

\* the text decodes to zero usable data rows
NoUsableRows(csvText) ==
    \/ ~Decodes(csvText)
    \/ Len(Parsed(csvText).data) = 0

\* C5: an updateAll on a text with zero usable data rows returns false and
\* leaves instances, chart series, legends and filter unchanged.
C5_NoRowsRollsBack ==
    [][ ( /\ calls' = calls + 1
          /\ NoUsableRows(last'.csvText) )
        => ( /\ last'.result = "false"
             /\ UNCHANGED ProgramState ) ]_vars

\* the columns the conversion of an instance requires
RequiredColumns(key, seriesType) ==
    IF seriesType = "Candlestick"
    THEN << "time", "open", "high", "low", "close" >>
    ELSE << "time", key >>

CanConvert(parser, e) ==
    ~MissingColumns(parser, RequiredColumns(e.key, e.value.seriesType))

\* C6: when the text has usable rows and the conversion of some new instance
\* lacks a required column, updateAll still returns true, every instance
\* whose conversion has its columns got its data, and the filter lists the
\* new instances.
C6_MissingColumnSkipsOnlyThatInstance ==
    ( /\ JustCalled
      /\ ~NoUsableRows(last.csvText)
      /\ last.result # "false"
      /\ \E i \in 1..Len(seriesInstances) :
            ~CanConvert(Parsed(last.csvText), seriesInstances[i]) )
    => ( /\ last.result = "true"
         /\ \A i \in 1..Len(seriesInstances) :
               CanConvert(Parsed(last.csvText), seriesInstances[i])
                  => chart.opts[seriesInstances[i].value.series].dataSet
         /\ {dropdown.individualSeries[i].item.id :
                i \in 1..Len(dropdown.individualSeries)} = MapKeys(seriesInstances) )

PaneOf(e) ==
    PaneIndexOf(chart, e.value.series)

GroupOf(e) ==
    SourceGroup(e.value.seriesSource)

\* C7: after a successful updateAll, active instances of one group are on
\* one pane, and instances of different groups are on different panes unless
\* one of them is on the main pane (index 0).
C7_GroupsAndPanes ==
    Succeeded =>
        \A i, j \in 1..Len(seriesInstances) :
            LET a == seriesInstances[i]
                b == seriesInstances[j]
            IN  /\ GroupOf(a) = GroupOf(b) => PaneOf(a) = PaneOf(b)
                /\ GroupOf(a) # GroupOf(b) =>
                      \/ PaneOf(a) # PaneOf(b)
                      \/ PaneOf(a) = 0
                      \/ PaneOf(b) = 0

\* C7 witness: two instances of one group share a pane other than the main
\* one, and an instance of another group is on a third pane
C7_Witness ==
    /\ Succeeded
    /\ \E i, j, k \in 1..Len(seriesInstances) :
          /\ i # j
          /\ GroupOf(seriesInstances[i]) = GroupOf(seriesInstances[j])
          /\ PaneOf(seriesInstances[i]) > 0
          /\ PaneOf(seriesInstances[i]) = PaneOf(seriesInstances[j])
          /\ GroupOf(seriesInstances[k]) # GroupOf(seriesInstances[i])
          /\ PaneOf(seriesInstances[k]) > 0
          /\ PaneOf(seriesInstances[k]) # PaneOf(seriesInstances[i])

\* the number of earlier columns of the pass that match the same source key
Occurrence(headers, b) ==
    Cardinality({j \in 1..(b.column - 1) : MatchingSource(headers[j]) = << b.seriesSource >>})

Palette(source) ==
    sourceColorMap(PaletteOf(source))

\* C8: the instance built for the N-th column (from 0) matching a repeatable
\* source key has the color palette[N mod paletteLength] of that key.
C8_ColorIsPaletteModulo ==
    JustCalled =>
        \A i \in 1..Len(built) :
            built[i].seriesSource \in RepeatableSources =>
                LET n == Occurrence(Parsed(last.csvText).headers, built[i])
                    palette == Palette(built[i].seriesSource)
                IN  built[i].color = palette[(n % Len(palette)) + 1]

\* C9: in every pass the first column matching a repeatable source key gets
\* the first palette entry and the second such column the second entry, a
\* different color; the count starts at zero in every pass.
C9_FirstTwoOccurrences ==
    JustCalled =>
        \A i \in 1..Len(built) :
            built[i].seriesSource \in RepeatableSources =>
                LET n == Occurrence(Parsed(last.csvText).headers, built[i])
                    palette == Palette(built[i].seriesSource)
                IN  /\ n = 0 => built[i].color = palette[1]
                    /\ n = 1 => built[i].color = palette[2] /\ palette[2] # palette[1]

\* C9 witness: the second pass of a behaviour has built two instances of one
\* repeatable source key, with different colors
C9_Witness ==
    /\ JustCalled
    /\ calls > 1
    /\ \E i, j \in 1..Len(built) :
          /\ i < j
          /\ built[i].seriesSource \in RepeatableSources
          /\ built[i].seriesSource = built[j].seriesSource
          /\ built[i].color # built[j].color

\* ------------------------------------------------------------------------
\* The filter on its own: the public operations of ChartDropdown and the
\* change events of its checkboxes, in any order
\* ------------------------------------------------------------------------

MaxFilterOps == 3

BollingerBands ==
    [id |-> "bollinger_bands", name |-> "Bollinger Bands",
     seriesItems |-> << [id |-> "bb_upper", name |-> "BB Upper"],
                        [id |-> "bb_lower", name |-> "BB Lower"],
                        [id |-> "bb_middle", name |-> "BB Middle"] >>]

DonchianChannels ==
    [id |-> "donchian_channels", name |-> "Donchian Channels",
     seriesItems |-> << [id |-> "dc_upper", name |-> "DC Upper"] >>]

SeriesGroups ==
    {BollingerBands, DonchianChannels}

\* individual items: series whose definition names no group, so that no id is
\* both an individual item and a member of a group (updateAllSeriesData)
SeriesItems ==
    {[id |-> "volume", name |-> "Volume"], [id |-> "adx", name |-> "ADX"]}

SelectionArrays ==
    {<< >>, << "bb_upper" >>, << "volume", "bb_lower" >>, << "dc_upper", "adx" >>}

UpdateArguments ==
    {<< << >>, << >> >>,
     << << [id |-> "volume", name |-> "Volume"] >>, << BollingerBands >> >>,
     << << [id |-> "adx", name |-> "ADX"] >>, << BollingerBands, DonchianChannels >> >>}

FilterStep(st, op) ==
    /\ ops < MaxFilterOps
    /\ Adopt(st)
    /\ last' = [op |-> op, csvText |-> << >>, result |-> "none",
                callbacks |-> st.callbacks]
    /\ ops' = ops + 1
    /\ UNCHANGED <<built, calls, held, main>>

AddSeries(seriesItem) ==
    FilterStep(addSeries(St, seriesItem), "addSeries")

AddSeriesGroup(seriesGroup) ==
    FilterStep(addSeriesGroup(St, seriesGroup), "addSeriesGroup")

RemoveSeries(seriesId) ==
    FilterStep(removeSeries(St, seriesId), "removeSeries")

RemoveSeriesGroup(groupId) ==
    FilterStep(removeSeriesGroup(St, groupId), "removeSeriesGroup")

Update(arguments) ==
    FilterStep(update(St, arguments[1], arguments[2]), "update")

SetSelectedSeries(seriesIds) ==
    /\ ops < MaxFilterOps
    /\ Adopt(setSelectedSeries(St, seriesIds))
    /\ last' = [op |-> "setSelectedSeries", csvText |-> << >>, result |-> "none",
                callbacks |-> setSelectedSeries(St, seriesIds).callbacks,
                seriesIds |-> seriesIds]
    /\ ops' = ops + 1
    /\ UNCHANGED <<built, calls, held, main>>

ClearAllSelections ==
    FilterStep(clearAllSelections(St), "clearAllSelections")

\* the user clicks the checkbox of group number gi
GroupCheckboxChange(gi) ==
    FilterStep(handleGroupCheckbox(St, gi, ~dropdown.seriesGroups[gi].checked),
               "groupCheckbox")

\* the user clicks the checkbox of member number mi of group number gi
SubCheckboxChange(gi, mi) ==
    FilterStep(handleSubCheckbox(St, gi, mi, ~dropdown.seriesGroups[gi].sub[mi]),
               "subCheckbox")

\* the user clicks the checkbox of individual item number i
IndividualCheckboxChange(i) ==
    FilterStep(handleSeriesCheckbox(St, i, ~dropdown.individualSeries[i].checked),
               "seriesCheckbox")

\* a client calls getSelectedSeries() and keeps the result
GetSelectedSeries ==
    /\ ops < MaxFilterOps
    /\ held' = [set |-> getSelectedSeries(dropdown).set,
                shared |-> getSelectedSeries(dropdown).shared,
                from |-> "getSelectedSeries"]
    /\ last' = [op |-> "getSelectedSeries", csvText |-> << >>, result |-> "none"]
    /\ ops' = ops + 1
    /\ UNCHANGED <<chart, seriesInstances, legendsDiv, dropdown, built, calls, main,
                   registry>>

\* a client keeps the set its selection-change callback received last
KeepCallbackArgument ==
    /\ ops < MaxFilterOps
    /\ held' = [set |-> dropdown.lastNotified,
                shared |-> CallbackArgument(dropdown).shared,
                from |-> "callback"]
    /\ last' = [op |-> "keepCallbackArgument", csvText |-> << >>, result |-> "none"]
    /\ ops' = ops + 1
    /\ UNCHANGED <<chart, seriesInstances, legendsDiv, dropdown, built, calls, main,
                   registry>>

\* the client adds id to, or deletes it from, the set it holds; a shared
\* object is the selection of the filter itself
ClientChangesHeldSet(id) ==
    /\ ops < MaxFilterOps
    /\ held.from # "none"
    /\ held' = [held EXCEPT !.set = SetToggle(held, id)]
    /\ dropdown' = IF held.shared
                   THEN [dropdown EXCEPT !.selectedSeries = SetToggle(held, id)]
                   ELSE dropdown
    /\ last' = [op |-> "clientChangesHeldSet", csvText |-> << >>, result |-> "none"]
    /\ ops' = ops + 1
    /\ UNCHANGED <<chart, seriesInstances, legendsDiv, built, calls, main, registry>>

NextFilter ==
    \/ \E seriesItem \in SeriesItems : AddSeries(seriesItem)
    \/ \E seriesGroup \in SeriesGroups : AddSeriesGroup(seriesGroup)
    \/ \E seriesItem \in SeriesItems : RemoveSeries(seriesItem.id)
    \/ \E seriesGroup \in SeriesGroups : RemoveSeriesGroup(seriesGroup.id)
    \/ \E arguments \in UpdateArguments : Update(arguments)
    \/ \E seriesIds \in SelectionArrays : SetSelectedSeries(seriesIds)
    \/ ClearAllSelections
    \/ \E gi \in 1..Len(dropdown.seriesGroups) : GroupCheckboxChange(gi)
    \/ \E gi \in 1..Len(dropdown.seriesGroups) :
          \E mi \in 1..Len(dropdown.seriesGroups[gi].sub) : SubCheckboxChange(gi, mi)
    \/ \E i \in 1..Len(dropdown.individualSeries) : IndividualCheckboxChange(i)
    \/ GetSelectedSeries
    \/ KeepCallbackArgument
    \/ \E id \in {"volume", "bb_upper"} : ClientChangesHeldSet(id)

SpecFilter == Init /\ [][NextFilter]_vars

\* C34: addSeries with an id that is already an individual item, and
\* addSeriesGroup with an id that is already a group, change nothing: items,
\* groups, selection set and every checkbox stay as they were, and the
\* selection-change callback is not called.  An addSeries or addSeriesGroup
\* step is either such a skip or appends an item or group whose id was not
\* there.
C34_DuplicateAddIsSkipped ==
    [][ /\ ( /\ ops' = ops + 1
             /\ last'.op = "addSeries" )
           => \/ /\ dropdown' = dropdown
                 /\ last'.callbacks = 0
              \/ \E seriesItem \in SeriesItems :
                    /\ ~HasSeries(dropdown, seriesItem.id)
                    /\ dropdown'.individualSeries =
                          Append(dropdown.individualSeries,
                                 [item |-> seriesItem, checked |-> TRUE])
        /\ ( /\ ops' = ops + 1
             /\ last'.op = "addSeriesGroup" )
           => \/ /\ dropdown' = dropdown
                 /\ last'.callbacks = 0
              \/ \E seriesGroup \in SeriesGroups :
                    /\ ~HasGroup(dropdown, seriesGroup.id)
                    /\ Len(dropdown'.seriesGroups) = Len(dropdown.seriesGroups) + 1
                    /\ dropdown'.seriesGroups[Len(dropdown'.seriesGroups)].id
                          = seriesGroup.id ]_vars

\* C34 witness: an addSeries of an id that was an item, deselected before,
\* has left the item deselected and called nothing
C34_Witness ==
    /\ last.op = "addSeries"
    /\ last.callbacks = 0
    /\ Len(dropdown.individualSeries) = 1
    /\ ~dropdown.individualSeries[1].checked
    /\ dropdown.selectedSeries = {}

\* the same for a group with a deselected member
C34_WitnessGroup ==
    /\ last.op = "addSeriesGroup"
    /\ last.callbacks = 0
    /\ Len(dropdown.seriesGroups) = 1
    /\ \E mi \in 1..Len(dropdown.seriesGroups[1].sub) : ~dropdown.seriesGroups[1].sub[mi]

\* ------------------------------------------------------------------------
\* The filter with an id that is both an individual item and a member of a
\* group, and with an item whose id is no key of SeriesDefinitions
\* ------------------------------------------------------------------------

SharedIdItems ==
    { [id |-> "bb_upper", name |-> "BB Upper"], [id |-> "aer", name |-> "AER"] }

SharedIdSelections ==
    { << >>, << "bb_upper" >>, << "aer", "bb_lower" >> }

SharedIdUpdates ==
    { << << [id |-> "bb_upper", name |-> "BB Upper"] >>, << BollingerBands >> >>,
      << << [id |-> "aer", name |-> "AER"] >>, << >> >> }

NextOfSharedIds ==
    \/ \E seriesItem \in SharedIdItems : AddSeries(seriesItem)
    \/ AddSeriesGroup(BollingerBands)
    \/ \E seriesItem \in SharedIdItems : RemoveSeries(seriesItem.id)
    \/ RemoveSeriesGroup(BollingerBands.id)
    \/ \E arguments \in SharedIdUpdates : Update(arguments)
    \/ \E seriesIds \in SharedIdSelections : SetSelectedSeries(seriesIds)
    \/ ClearAllSelections
    \/ \E gi \in 1..Len(dropdown.seriesGroups) : GroupCheckboxChange(gi)
    \/ \E gi \in 1..Len(dropdown.seriesGroups) :
          \E mi \in 1..Len(dropdown.seriesGroups[gi].sub) : SubCheckboxChange(gi, mi)
    \/ \E i \in 1..Len(dropdown.individualSeries) : IndividualCheckboxChange(i)

SpecOfSharedIds == Init /\ [][NextOfSharedIds]_vars

\* the tri-state of a group derived from the selection set
DerivedState(g) ==
    LET selected == {i \in 1..Len(g.seriesItems) :
                        g.seriesItems[i].id \in dropdown.selectedSeries}
    IN  IF selected = {}
        THEN "unchecked"
        ELSE IF Cardinality(selected) = Len(g.seriesItems)
        THEN "checked"
        ELSE "indeterminate"

\* the tri-state the group checkbox shows
ShownState(g) ==
    IF g.indeterminate
    THEN "indeterminate"
    ELSE IF g.checked THEN "checked" ELSE "unchecked"

\* the ids the filter has a checkbox for
PresentIds ==
    { dropdown.individualSeries[i].item.id : i \in 1..Len(dropdown.individualSeries) }
    \cup UNION { ItemIds(dropdown.seriesGroups[gi].seriesItems) :
                    gi \in 1..Len(dropdown.seriesGroups) }

\* every item checkbox is checked iff its id is in the selection set
CheckboxesShowSelection ==
    /\ \A i \in 1..Len(dropdown.individualSeries) :
          dropdown.individualSeries[i].checked
             = (dropdown.individualSeries[i].item.id \in dropdown.selectedSeries)
    /\ \A gi \in 1..Len(dropdown.seriesGroups) :
          \A mi \in 1..Len(dropdown.seriesGroups[gi].sub) :
              dropdown.seriesGroups[gi].sub[mi]
                 = (dropdown.seriesGroups[gi].seriesItems[mi].id \in dropdown.selectedSeries)

\* C35: after setSelectedSeries(ids) the selection set is the ids of the
\* argument that the filter has an item for, every item checkbox is checked
\* iff its id is selected, and every group shows the tri-state of its
\* members; after clearAllSelections the selection is empty, no checkbox is
\* checked and every group is unchecked and not indeterminate.
C35_SetAndClearSelection ==
    /\ last.op = "setSelectedSeries"
          => /\ dropdown.selectedSeries
                   = { id \in PresentIds : SeqIncludes(last.seriesIds, id) }
             /\ CheckboxesShowSelection
             /\ \A gi \in 1..Len(dropdown.seriesGroups) :
                   ShownState(dropdown.seriesGroups[gi])
                      = DerivedState(dropdown.seriesGroups[gi])
    /\ last.op = "clearAllSelections"
          => /\ dropdown.selectedSeries = {}
             /\ CheckboxesShowSelection
             /\ \A gi \in 1..Len(dropdown.seriesGroups) :
                   /\ ~dropdown.seriesGroups[gi].checked
                   /\ ~dropdown.seriesGroups[gi].indeterminate

\* C35 witness: setSelectedSeries with an absent id and one member of a
\* group of three has selected the member alone, after a clearAllSelections
C35_Witness ==
    /\ last.op = "setSelectedSeries"
    /\ last.seriesIds = << "volume", "bb_lower" >>
    /\ "volume" \notin PresentIds
    /\ dropdown.selectedSeries = { "bb_lower" }
    /\ \E gi \in 1..Len(dropdown.seriesGroups) :
          /\ Len(dropdown.seriesGroups[gi].sub) = 3
          /\ dropdown.seriesGroups[gi].indeterminate

\* clearAllSelections on a filter with a selected group and item
C35_WitnessClear ==
    /\ last.op = "clearAllSelections"
    /\ Len(dropdown.seriesGroups) >= 1
    /\ Len(dropdown.individualSeries) >= 1
    /\ last.callbacks = 1

\* the ids of the item checkboxes that are checked
CheckedIds ==
    { dropdown.individualSeries[i].item.id :
        i \in { i \in 1..Len(dropdown.individualSeries) : dropdown.individualSeries[i].checked } }
    \cup UNION { { dropdown.seriesGroups[gi].seriesItems[mi].id :
                     mi \in { mi \in 1..Len(dropdown.seriesGroups[gi].sub) :
                                 dropdown.seriesGroups[gi].sub[mi] } } :
                  gi \in 1..Len(dropdown.seriesGroups) }

\* C37: after any sequence of filter operations, with an id shared between
\* an individual item and a member of a group among the items, the selection
\* set is the set of the ids whose item checkbox is checked, and all its ids
\* are ids of items the filter has.
C37_SelectionIsCheckedIds ==
    /\ dropdown.selectedSeries = CheckedIds
    /\ dropdown.selectedSeries \subseteq PresentIds

\* The half that holds: the selected ids are ids of items of the filter.
SelectionWithinItems ==
    dropdown.selectedSeries \subseteq PresentIds

\* removeSeries of a shared id has taken the id out of the selection while
\* the member checkbox of that id is checked
CheckedMemberNotSelected ==
    /\ last.op = "removeSeries"
    /\ dropdown.individualSeries = << >>
    /\ "bb_upper" \in CheckedIds
    /\ "bb_upper" \notin dropdown.selectedSeries

\* the checkbox of an item whose id is no key of SeriesDefinitions has been
\* unchecked and the id is still selected
UncheckedItemStillSelected ==
    /\ last.op = "seriesCheckbox"
    /\ "aer" \in dropdown.selectedSeries
    /\ "aer" \notin CheckedIds
    /\ dropdown.seriesGroups = << >>

GroupToggled(gi, v) ==
    LET g == dropdown.seriesGroups[gi]
        members == ItemIds(g.seriesItems)
    IN  /\ \A id \in members : (id \in dropdown'.selectedSeries) <=> v
        /\ dropdown'.seriesGroups[gi].checked = v
        /\ dropdown'.seriesGroups[gi].indeterminate = FALSE
        /\ dropdown'.selectedSeries \ members = dropdown.selectedSeries \ members

\* C11: toggling the checkbox of a group to v makes every member selected
\* iff v, leaves the group checked (v) or unchecked (not v) with the
\* indeterminate flag cleared, and leaves the selection of every item
\* outside the group as it was.
C11_GroupToggleCascades ==
    [][ \A gi \in 1..Len(dropdown.seriesGroups) :
           GroupCheckboxChange(gi) =>
               GroupToggled(gi, ~dropdown.seriesGroups[gi].checked) ]_vars

\* C11 witness: a group toggle has deselected the three members of a group
\* and cleared its checkbox while an item outside the group stays selected
C11_Witness ==
    /\ last.op = "groupCheckbox"
    /\ \E gi \in 1..Len(dropdown.seriesGroups) :
          LET g == dropdown.seriesGroups[gi]
          IN  /\ Len(g.seriesItems) = 3
              /\ ItemIds(g.seriesItems) \cap dropdown.selectedSeries = {}
              /\ ShownState(g) = "unchecked"
    /\ dropdown.selectedSeries # {}

\* the ids of all items of an update: the individual ones and the members
AllItemIds(individual, groups) ==
    ItemIds(individual) \cup UNION {ItemIds(groups[i].seriesItems) : i \in 1..Len(groups)}

\* the filter holds exactly the given items and groups, all of them selected
HoldsExactly(dd, individual, groups) ==
    /\ [i \in 1..Len(dd.individualSeries) |-> dd.individualSeries[i].item] = individual
    /\ [i \in 1..Len(dd.seriesGroups) |->
           [id |-> dd.seriesGroups[i].id, name |-> dd.seriesGroups[i].name,
            seriesItems |-> dd.seriesGroups[i].seriesItems]] = groups
    /\ dd.selectedSeries = AllItemIds(individual, groups)
    /\ \A i \in 1..Len(dd.individualSeries) : dd.individualSeries[i].checked
    /\ \A i \in 1..Len(dd.seriesGroups) :
          /\ dd.seriesGroups[i].checked
          /\ ~dd.seriesGroups[i].indeterminate
          /\ \A j \in 1..Len(dd.seriesGroups[i].sub) : dd.seriesGroups[i].sub[j]

\* C12: after update with a list of items and groups the filter holds
\* exactly those items and groups and the selection is exactly the set of
\* their item ids (all checkboxes checked), whatever items and selection
\* there were before the call.
C12_UpdateReplacesEverything ==
    [][ \A arguments \in UpdateArguments :
           Update(arguments) => HoldsExactly(dropdown', arguments[1], arguments[2]) ]_vars

\* C12 witness: an update, made after other operations, has left the filter
\* with items and groups, all selected
C12_Witness ==
    /\ last.op = "update"
    /\ ops > 1
    /\ Len(dropdown.individualSeries) > 0
    /\ Len(dropdown.seriesGroups) > 0
    /\ \E arguments \in UpdateArguments :
          HoldsExactly(dropdown, arguments[1], arguments[2])

C15_HandedOutSetsAreCopies ==
    [][ \A id \in {"volume", "bb_upper"} :
           ClientChangesHeldSet(id) => UNCHANGED dropdown ]_vars

\* C15 witness: a client has changed the set getSelectedSeries gave it, which
\* now differs from the non-empty selection of the filter
C15_Witness ==
    /\ last.op = "clientChangesHeldSet"
    /\ held.from = "getSelectedSeries"
    /\ dropdown.selectedSeries # {}
    /\ held.set # dropdown.selectedSeries

\* the same for the set the callback received
C15_WitnessCallback ==
    /\ last.op = "clientChangesHeldSet"
    /\ held.from = "callback"
    /\ dropdown.selectedSeries # {}
    /\ held.set # dropdown.selectedSeries

\* ids to remove: items, members of groups, groups, and an id never added
RemovableIds ==
    {"volume", "adx", "bb_upper", "dc_upper", "bollinger_bands", "donchian_channels",
     "missing"}

\* C17: removeSeries and removeSeriesGroup with an id that is not present
\* leave items, groups, selection and checkboxes unchanged, and either
\* operation applied twice with one id gives the state it gives applied once.
C17_RemovalIdempotent ==
    \A id \in RemovableIds :
        /\ ~HasSeries(dropdown, id) => removeSeries(St, id) = St
        /\ ~HasGroup(dropdown, id) => removeSeriesGroup(St, id) = St
        /\ removeSeries(removeSeries(St, id), id) = removeSeries(St, id)
        /\ removeSeriesGroup(removeSeriesGroup(St, id), id) = removeSeriesGroup(St, id)

\* C17 witness: a removal has happened, an item and a group are left, both
\* with selected ids, and ids of items and of groups are absent
C17_Witness ==
    /\ last.op \in {"removeSeries", "removeSeriesGroup"}
    /\ Len(dropdown.individualSeries) > 0
    /\ Len(dropdown.seriesGroups) > 0
    /\ \E id \in RemovableIds : HasSeries(dropdown, id) /\ id \in dropdown.selectedSeries
    /\ "bb_upper" \in dropdown.selectedSeries
    /\ ~HasSeries(dropdown, "bb_upper")
    /\ \E id \in RemovableIds : ~HasGroup(dropdown, id)

\* ------------------------------------------------------------------------
\* Properties of the manager and the filter together
\* ------------------------------------------------------------------------

IsVisible(e) ==
    chart.opts[e.value.series].visible

\* C13: between operations the series of every active instance is visible
\* if and only if the key of the instance is in the selection set of the
\* filter.
C13_VisibleIffSelected ==
    \A i \in 1..Len(seriesInstances) :
        IsVisible(seriesInstances[i]) <=> seriesInstances[i].key \in dropdown.selectedSeries

\* the keys of the active instances of the Candlestick kind
CandlestickKeys ==
    { k \in MapKeys(seriesInstances) :
        MapGet(seriesInstances, k).seriesType = "Candlestick" }

\* C19: after a successful updateAll the active set holds an instance of the
\* Candlestick kind exactly when the column names include open, high, low
\* and close, and then it holds exactly one, under the key 'candlestick'.
C19_OnePriceBarInstanceIffOhlc ==
    Succeeded =>
        /\ (CandlestickKeys # { }) <=> allOhlcPresent(ColumnNames(last.csvText))
        /\ CandlestickKeys # { } => CandlestickKeys = { "candlestick" }

\* The same, for texts none of whose column names begins with 'candlestick'.
PriceBarsWithoutCandlestickColumn ==
    ( /\ Succeeded
      /\ \A i \in 1..Len(ColumnNames(last.csvText)) :
            ~startsWith(ColumnNames(last.csvText)[i], "candlestick") )
    => /\ (CandlestickKeys # { }) <=> allOhlcPresent(ColumnNames(last.csvText))
       /\ CandlestickKeys # { } => CandlestickKeys = { "candlestick" }

BollingerText ==
    << << "time", "bb_upper_20", "bb_upper_50" >>,
       RowFor(<< "time", "bb_upper_20", "bb_upper_50" >>) >>

\* the item the filter holds for a series id
FilterItem(id) ==
    dropdown.individualSeries[
        CHOOSE i \in 1..Len(dropdown.individualSeries) :
            dropdown.individualSeries[i].item.id = id].item

\* the color the instance under a key was created with
ColorOf(key) ==
    built[CHOOSE i \in 1..Len(built) : built[i].key = key].color

\* after updateAll on BollingerText: success, two instances of source
\* bb_upper, different colors, labels with the suffixes
TwoBollingerInstances ==
    /\ last.result = "true"
    /\ MapKeys(seriesInstances) = { "bb_upper_20", "bb_upper_50" }
    /\ Len(seriesInstances) = 2
    /\ \A i \in 1..Len(seriesInstances) :
          seriesInstances[i].value.seriesSource = "bb_upper"
    /\ { dropdown.individualSeries[i].item.id : i \in 1..Len(dropdown.individualSeries) }
          = { "bb_upper_20", "bb_upper_50" }
    /\ ColorOf("bb_upper_20") # ColorOf("bb_upper_50")
    /\ includes(FilterItem("bb_upper_20").label, "_20")
    /\ includes(FilterItem("bb_upper_50").label, "_50")

\* C20: for the columns time,bb_upper_20,bb_upper_50 updateAll succeeds with
\* exactly two instances, both of source bb_upper; their filter items carry
\* the same group id, their colors differ and their labels contain _20 and
\* _50.
C20_BollingerPairSharesGroup ==
    (JustCalled /\ last.csvText = BollingerText) =>
        /\ TwoBollingerInstances
        /\ FilterItem("bb_upper_20").group.id = FilterItem("bb_upper_50").group.id

\* The same without the shared group id.
BollingerPairWithoutGroup ==
    (JustCalled /\ last.csvText = BollingerText) => TwoBollingerInstances

TradeLabels ==
    { "LongEntry", "ShortEntry", "LongExit", "ShortExit" }

LabelsIn(event) ==
    { k \in TradeLabels : includes(event, k) }

\* the number of markers due for the rows before row i
RECURSIVE MarkersBefore(_, _)
MarkersBefore(events, i) ==
    IF i <= 1 THEN 0
    ELSE MarkersBefore(events, i - 1) + Cardinality(LabelsIn(events[i - 1].event))

\* marker m is the marker of label k for the row e: at the row's time, below
\* the bar for Long and above it for Short, an arrow for an entry and a
\* neutral shape for an exit
MarkerOf(m, k, e) ==
    /\ m.time = e.time
    /\ m.position = (IF startsWith(k, "Long") THEN "belowBar" ELSE "aboveBar")
    /\ (m.shape \in { "arrowUp", "arrowDown" }) = includes(k, "Entry")
    /\ (m.shape = "arrowUp") = (k = "LongEntry")
    /\ (m.shape = "arrowDown") = (k = "ShortEntry")

\* a text with an event column was loaded with success, and the price-bar
\* series has its markers
MarkersSet ==
    /\ Succeeded
    /\ SeqIncludes(ColumnNames(last.csvText), "event")
    /\ MapHas(seriesInstances, "candlestick")

TradeEventsOfLast ==
    ParseTradeEvents(Parsed(last.csvText)).points

MarkersOfLast ==
    chart.opts[MapGet(seriesInstances, "candlestick").series].markers

\* C22: the markers on the price-bar series are, row after row in the order
\* of the rows, one marker for each of LongEntry, ShortEntry, LongExit and
\* ShortExit that the row's label contains, below the bar for the Long ones
\* and above the bar for the Short ones, and no other marker.
C22_OneMarkerPerContainedLabel ==
    MarkersSet =>
        LET events == TradeEventsOfLast
            markers == MarkersOfLast
        IN  /\ Len(markers) = MarkersBefore(events, Len(events) + 1)
            /\ \A i \in 1..Len(events) :
                  \A k \in LabelsIn(events[i].event) :
                      Cardinality(
                        { j \in (MarkersBefore(events, i) + 1)..MarkersBefore(events, i + 1) :
                            MarkerOf(markers[j], k, events[i]) }) = 1

\* C22 witness: a first row with all four labels and a second row with one
\* have given five markers
C22_Witness ==
    /\ MarkersSet
    /\ Len(TradeEventsOfLast) = 2
    /\ Cardinality(LabelsIn(TradeEventsOfLast[1].event)) = 4
    /\ Len(MarkersOfLast) = 5

\* a row whose label contains none of the four gives no marker
C22_WitnessNoMarker ==
    /\ MarkersSet
    /\ \E i \in 1..Len(TradeEventsOfLast) : LabelsIn(TradeEventsOfLast[i].event) = { }
    /\ Len(MarkersOfLast) = 2

\* C21: for the columns time,open,high,low,close,volume updateAll returns
\* true with exactly two active instances, the price-bar instance under
\* 'candlestick' and a Histogram instance under 'volume', and the filter
\* holds both as individual items with no group.
C21_OhlcvGivesBarsAndVolume ==
    (JustCalled /\ last.csvText = OhlcvCsv) =>
        /\ last.result = "true"
        /\ Len(seriesInstances) = 2
        /\ MapKeys(seriesInstances) = { "candlestick", "volume" }
        /\ MapGet(seriesInstances, "candlestick").seriesType = "Candlestick"
        /\ MapGet(seriesInstances, "volume").seriesType = "Histogram"
        /\ { dropdown.individualSeries[i].item.id :
                i \in 1..Len(dropdown.individualSeries) } = { "candlestick", "volume" }
        /\ Len(dropdown.individualSeries) = 2
        /\ dropdown.seriesGroups = << >>
        /\ FilterItem("candlestick").group = NoGroup
        /\ FilterItem("volume").group = NoGroup

\* C21 witness: the call on that text has returned, in a manager that held
\* other instances before
C21_Witness ==
    /\ JustCalled
    /\ last.csvText = OhlcvCsv
    /\ calls > 1
    /\ MapHas(seriesInstances, "volume")

PointAtLast(instance) ==
    SeriesDataGet(chart, instance.series, last.time)

\* C23: after a pointer query with a time, the legend of every active
\* instance shows the formatter text of its value at that time when it has
\* one and its idle label when it has none.
C23_LegendShowsValueOrIdle ==
    (last.op = "crosshairMove" /\ last.time # "undefined") =>
        \A i \in 1..Len(seriesInstances) :
            LET instance == seriesInstances[i].value
            IN  instance.textContent =
                    IF PointAtLast(instance) # << >>
                    THEN formatData(instance.seriesSource, PointAtLast(instance)[1])
                    ELSE IdleLabel(instance.seriesSource)

\* The part about values: an instance that has a value at the time of the
\* query shows its formatter text.
LegendShowsValue ==
    (last.op = "crosshairMove" /\ last.time # "undefined") =>
        \A i \in 1..Len(seriesInstances) :
            LET instance == seriesInstances[i].value
            IN  PointAtLast(instance) # << >> =>
                    instance.textContent =
                        formatData(instance.seriesSource, PointAtLast(instance)[1])

KnownTypes ==
    { "Candlestick", "Histogram", "Line" }

\* C24: a factory call that names a visual kind other than Candlestick,
\* Histogram and Line returns no instance and adds no series to the chart,
\* and its caller records no instance and counts no occurrence; the calls
\* for the other columns are made as before.
C24_UnknownKindMakesNothing ==
    [][ ( /\ calls' = calls + 1
          /\ last'.op = "createSeriesInstance"
          /\ last'.seriesType \notin KnownTypes )
        => ( /\ last'.result = "undefined"
             /\ chart' = chart
             /\ seriesInstances' = seriesInstances
             /\ built' = built
             /\ SourceCountOf(built') = SourceCountOf(built) ) ]_vars

\* C24 witness: a call of an unknown kind returned nothing, and the call
\* after it has made and recorded its instance
C24_Witness ==
    /\ last.op = "createSeriesInstance"
    /\ calls = 2
    /\ last.result = "instance"
    /\ Len(built) = 1
    /\ built[1].column = 2
    /\ MapKeys(seriesInstances) = { last.key }

\* C25: of the calls the chart receives within one updateAll every
\* addSeries comes before every removeSeries, and when the discovery pass
\* has made no instance the chart receives no removeSeries at all.
C25_CreationsBeforeRemovals ==
    [][ ( /\ calls' = calls + 1
          /\ last'.op = "updateAll" )
        => LET new == SubSeq(chart'.log, Len(chart.log) + 1, Len(chart'.log))
           IN  /\ \A i, j \in 1..Len(new) :
                     (new[i] = "removeSeries" /\ new[j] = "addSeries") => j < i
               /\ built' = << >> => \A i \in 1..Len(new) : new[i] # "removeSeries" ]_vars

\* C25 witness: a second updateAll has succeeded and has removed the series
\* of the first
C25_Witness ==
    /\ Succeeded
    /\ calls = 2
    /\ \E i \in 1..Len(chart.log) : chart.log[i] = "removeSeries"

\* an updateAll whose discovery made nothing has returned false while
\* instances were active
C25_WitnessNothingFound ==
    /\ JustCalled
    /\ last.result = "false"
    /\ built = << >>
    /\ Len(seriesInstances) > 0

\* C26: whatever updateAll calls were made, the registry entries are what
\* they were at start: every instance of a source that gets a color per
\* occurrence was created with the color of its own occurrence, every other
\* instance with the color of its unchanged registry entry.
C26_RegistryNeverWritten ==
    /\ registry = NewRegistry
    /\ JustCalled =>
          \A i \in 1..Len(built) :
              IF built[i].seriesSource \in RepeatableSources
              THEN built[i].color = ArrayGet(Palette(built[i].seriesSource), built[i].num)
              ELSE built[i].color = SeriesSourceConfigs(built[i].seriesSource).color

\* C26 witness: a second updateAll has created two instances of one source
\* with a color per occurrence
C26_Witness ==
    /\ JustCalled
    /\ calls = 2
    /\ \E i, j \in 1..Len(built) :
          /\ i < j
          /\ built[i].seriesSource = built[j].seriesSource
          /\ built[i].seriesSource \in RepeatableSources
          /\ built[i].color # built[j].color

\* the source keys that are a prefix of a column name
KeyPrefixes(header) ==
    { SourceKeys[i] : i \in { k \in 1..Len(SourceKeys) : startsWith(header, SourceKeys[k]) } }

\* the longest of them: none, or one
LongestKeyPrefix(header) ==
    IF KeyPrefixes(header) = { }
    THEN << >>
    ELSE << CHOOSE s \in KeyPrefixes(header) :
                \A t \in KeyPrefixes(header) : Len(t) <= Len(s) >>

\* C27: no source key is a proper prefix of another source key, and the
\* source key every column of an updateAll was matched to is the longest
\* source key that is a prefix of the column name (none when there is no
\* such key).
C27_FirstMatchIsLongestMatch ==
    /\ \A i, j \in 1..Len(SourceKeys) :
          i # j => ~startsWith(SourceKeys[i], SourceKeys[j])
    /\ JustCalled =>
          LET headers == Parsed(last.csvText).headers
          IN  /\ \A i \in 1..Len(headers) :
                    /\ MatchingSource(headers[i]) = LongestKeyPrefix(headers[i])
                    /\ Cardinality(KeyPrefixes(headers[i])) <= 1
              /\ \A b \in 1..Len(built) :
                    built[b].column > 0 =>
                        << built[b].seriesSource >> = LongestKeyPrefix(headers[built[b].column])

\* C27 witness: an updateAll has matched a column whose name is a source
\* key followed by more characters, next to columns that match no key
C27_Witness ==
    /\ JustCalled
    /\ \E b \in 1..Len(built) :
          /\ built[b].column > 0
          /\ built[b].key # built[b].seriesSource
          /\ LongestKeyPrefix(built[b].key) = << built[b].seriesSource >>
    /\ \E i \in 1..Len(Parsed(last.csvText).headers) :
          LongestKeyPrefix(Parsed(last.csvText).headers[i]) = << >>

\* C28: the key of every active instance made for a matched column is its
\* source key followed by its suffix, the source key is a prefix of the
\* key, and the key is a column name that matches a source key: a column
\* that matches none has no instance.
C28_KeyIsSourceThenSuffix ==
    \A i \in 1..Len(seriesInstances) :
        LET key == seriesInstances[i].key
            instance == seriesInstances[i].value
        IN  /\ instance.seriesSource \o instance.suffix = key
            /\ startsWith(key, instance.seriesSource)
            /\ key # "candlestick" => MatchingSource(key) = << instance.seriesSource >>
            /\ (Succeeded /\ key # "candlestick") =>
                  SeqIncludes(ColumnNames(last.csvText), key)

\* C28 witness: after an updateAll on a text with a column that matches no
\* source key, an instance with a suffix is active
C28_Witness ==
    /\ JustCalled
    /\ \E i \in 1..Len(seriesInstances) : seriesInstances[i].value.suffix # ""
    /\ \E i \in 1..Len(Parsed(last.csvText).headers) :
          /\ MatchingSource(Parsed(last.csvText).headers[i]) = << >>
          /\ ~MapHas(seriesInstances, Parsed(last.csvText).headers[i])

MainPaneSources ==
    { "candlestick", "volume" } \cup RepeatableSources

\* C29: after a successful updateAll every instance of source candlestick,
\* volume, bb_* or dc_* is on the main pane, index 0, and every instance of
\* adx, plusDi, minusDi, aer or atr is on a pane of index at least 1.
C29_MainPaneAndOwnPanes ==
    Succeeded =>
        \A i \in 1..Len(seriesInstances) :
            LET e == seriesInstances[i]
            IN  /\ e.value.seriesSource \in MainPaneSources => PaneOf(e) = 0
                /\ e.value.seriesSource \in OwnPaneSources => PaneOf(e) >= 1

\* The same for texts that have a column for the main pane.
PanesWhenMainPaneIsUsed ==
    ( /\ Succeeded
      /\ \E i \in 1..Len(seriesInstances) :
            seriesInstances[i].value.seriesSource \in MainPaneSources )
    => \A i \in 1..Len(seriesInstances) :
            LET e == seriesInstances[i]
            IN  /\ e.value.seriesSource \in MainPaneSources => PaneOf(e) = 0
                /\ e.value.seriesSource \in OwnPaneSources => PaneOf(e) >= 1

\* ------------------------------------------------------------------------
\* Properties of createSeriesInstance called on its own
\* ------------------------------------------------------------------------

\* the call before this state made an instance
MadeInstance ==
    /\ last.op = "createSeriesInstance"
    /\ last.result = "instance"

\* the series of the instance the last call made
SeriesOfLast ==
    MapGet(seriesInstances, last.key).series

\* the given color is the color of the series
StyleApplied ==
    chart.opts[SeriesOfLast].color = last.color

\* a non-zero paneIndex is the pane of the series, and without one the
\* series is on the main pane
PaneApplied ==
    IF Truthy(last.paneIndex)
    THEN PaneIndexOf(chart, SeriesOfLast) = last.paneIndex[1]
    ELSE PaneIndexOf(chart, SeriesOfLast) = 0

\* C30: createSeriesInstance applies the given style parameters to the
\* series it creates and moves the series onto a non-zero paneIndex, for
\* each of the kinds Candlestick, Histogram and Line; with paneIndex omitted
\* or 0 the series stays on the main pane.
C30_StyleAndPaneForEachKind ==
    MadeInstance => (StyleApplied /\ PaneApplied)

\* The style of a Histogram and of a Line is the given one.
StyleAppliedUnlessCandlestick ==
    (MadeInstance /\ last.seriesType # "Candlestick") => StyleApplied

\* Without a paneIndex, or with 0, the series of every kind is on the main
\* pane.
MainPaneWithoutPaneIndex ==
    (MadeInstance /\ ~Truthy(last.paneIndex))
        => PaneIndexOf(chart, SeriesOfLast) = 0

\* A Line is moved onto the pane asked for when the main pane holds another
\* series, so that the move leaves no empty pane behind.
LineMovedOntoPane ==
    [][ ( /\ calls' = calls + 1
          /\ last'.op = "createSeriesInstance"
          /\ last'.seriesType = "Line"
          /\ Truthy(last'.paneIndex)
          /\ chart.panes[1] # {} )
        => PaneIndexOf(chart', MapGet(seriesInstances', last'.key).series)
               = last'.paneIndex[1] ]_vars

\* a Candlestick call given a color whose series has none
CandlestickWithoutGivenStyle ==
    /\ MadeInstance
    /\ last.seriesType = "Candlestick"
    /\ last.color = "#123456"
    /\ chart.opts[SeriesOfLast].color = "undefined"

\* a Histogram call given pane 1, next to a series on the main pane, whose
\* series is on the main pane too
HistogramNotMoved ==
    /\ MadeInstance
    /\ calls = 2
    /\ last.seriesType = "Histogram"
    /\ last.paneIndex = << 1 >>
    /\ Len(chart.panes) = 1
    /\ Cardinality(chart.panes[1]) = 2

\* The half of it about the main pane: the price bars, the volume and the
\* overlay lines are on pane 0 after every successful updateAll.
MainPaneSourcesOnMainPane ==
    Succeeded =>
        \A i \in 1..Len(seriesInstances) :
            LET e == seriesInstances[i]
            IN  e.value.seriesSource \in MainPaneSources => PaneOf(e) = 0

\* a successful call that left an own-pane instance on pane 0
OwnPaneSourceOnMainPane ==
    /\ Succeeded
    /\ \E i \in 1..Len(seriesInstances) :
          /\ seriesInstances[i].value.seriesSource \in OwnPaneSources
          /\ PaneOf(seriesInstances[i]) = 0

\* ------------------------------------------------------------------------
\* The order of the steps of updateAll
\* ------------------------------------------------------------------------

\* the calls logged by the step from this state to the next
CallsOfStep ==
    SubSeq(chart'.log, Len(chart.log) + 1, Len(chart'.log))

Positions(seq, name) ==
    { i \in 1..Len(seq) : seq[i] = name }

\* every a in seq comes before every b
AllBefore(seq, a, b) ==
    \A i \in Positions(seq, a), j \in Positions(seq, b) : i < j

\* the steps of the commit
CommitSteps ==
    { "removeSeries", "adopt", "setData", "update", "applyOptions",
      "applyOptions of a removed series", "fitContent" }

\* removal of every old series, adoption, data into every new series, the
\* filter's update with its callbacks, and one fitContent at the end
CommitInOrder(new, old, adopted) ==
    /\ Cardinality(Positions(new, "removeSeries")) = Len(old)
    /\ Cardinality(Positions(new, "adopt")) = 1
    /\ Cardinality(Positions(new, "setData")) = Len(adopted)
    /\ Cardinality(Positions(new, "update")) = 1
    /\ Cardinality(Positions(new, "fitContent")) = 1
    /\ AllBefore(new, "removeSeries", "adopt")
    /\ AllBefore(new, "adopt", "setData")
    /\ AllBefore(new, "setData", "update")
    /\ AllBefore(new, "update", "applyOptions")
    /\ AllBefore(new, "applyOptions", "fitContent")
    /\ Positions(new, "applyOptions of a removed series") = {}
    /\ new[Len(new)] = "fitContent"

NoCommitStep(new) ==
    \A i \in 1..Len(new) : new[i] \notin CommitSteps

\* C31: a successful updateAll removes all old series, then adopts the new
\* set, then pushes data into every new series, then rebuilds the filter,
\* whose callbacks act on series of the new set only, and then requests
\* fitContent once; an updateAll that does not succeed takes none of these
\* steps.
C31_CommitOrderOrNothing ==
    [][ ( /\ calls' = calls + 1
          /\ last'.op = "updateAll" )
        => IF last'.result = "true"
           THEN CommitInOrder(CallsOfStep, seriesInstances, seriesInstances')
           ELSE NoCommitStep(CallsOfStep) ]_vars

\* The order of the commit in the calls that return true.
CommitOrderOnSuccess ==
    [][ ( /\ calls' = calls + 1
          /\ last'.op = "updateAll"
          /\ last'.result = "true" )
        => CommitInOrder(CallsOfStep, seriesInstances, seriesInstances') ]_vars

\* No step of the commit in the calls that return false.
NoCommitStepOnFalse ==
    [][ ( /\ calls' = calls + 1
          /\ last'.op = "updateAll"
          /\ last'.result = "false" )
        => NoCommitStep(CallsOfStep) ]_vars

\* a call that raised after it had removed the old series and adopted the
\* new set
RaisedAfterAdoption ==
    /\ last.op = "updateAll"
    /\ last.result = "throw"
    /\ calls = 2
    /\ \E i \in 1..Len(chart.log) :
          /\ chart.log[i] = "adopt"
          /\ \A j \in 1..Len(chart.log) : chart.log[j] = "fitContent" => j < i
    /\ \E i \in 1..Len(chart.log) : chart.log[i] = "fitContent"

\* a successful second call whose filter rebuild fired callbacks
SecondCommitWithCallbacks ==
    /\ last.op = "updateAll"
    /\ last.result = "true"
    /\ calls = 2
    /\ Cardinality(Positions(chart.log, "fitContent")) = 2
    /\ Cardinality(Positions(chart.log, "removeSeries")) >= 1
    /\ chart.log[Len(chart.log) - 1] = "applyOptions"

\* the loop of setSeriesData of the call that ends in the next state ran to
\* its end: the text decodes to rows, instances were discovered, and each
\* has the columns of its conversion
DataLoopCompletes ==
    /\ Decodes(last'.csvText)
    /\ ~NoUsableRows(last'.csvText)
    /\ last'.result # "false"
    /\ \A i \in 1..Len(seriesInstances') :
          CanConvert(Parsed(last'.csvText), seriesInstances'[i])

\* the text has an event column and there is an instance under 'candlestick'
MarkersDue ==
    /\ SeqIncludes(ColumnNames(last'.csvText), "event")
    /\ MapHas(seriesInstances', "candlestick")

\* C32: markers are set only when the text has an 'event' column and an
\* instance exists under 'candlestick', and then once, on the series of that
\* instance and on no other; when the column or the instance is missing no
\* marker is set, nothing is raised, and updateAll goes on to rebuild the
\* filter and returns true.
C32_MarkersOnlyOnPriceBars ==
    [][ ( /\ calls' = calls + 1
          /\ last'.op = "updateAll" )
        => LET new == CallsOfStep
           IN  /\ Positions(new, "setMarkers") # {}
                     => /\ MarkersDue
                        /\ Cardinality(Positions(new, "setMarkers")) = 1
                        /\ \A h \in ChartSeries(chart') :
                              chart'.opts[h].markers # << >>
                                 => h = MapGet(seriesInstances', "candlestick").series
               /\ (DataLoopCompletes /\ MarkersDue)
                     => Positions(new, "setMarkers") # {}
               /\ (DataLoopCompletes /\ ~MarkersDue)
                     => /\ Positions(new, "setMarkers") = {}
                        /\ \A h \in ChartSeries(chart') : chart'.opts[h].markers = << >>
                        /\ last'.result = "true"
                        /\ Cardinality(Positions(new, "update")) = 1
                        /\ Cardinality(Positions(new, "fitContent")) = 1 ]_vars

\* C32 witness: a text with an event column and no price columns was loaded
\* with success after a text with trade events on price bars, and no series
\* has a marker
C32_Witness ==
    /\ Succeeded
    /\ calls = 2
    /\ SeqIncludes(ColumnNames(last.csvText), "event")
    /\ ~MapHas(seriesInstances, "candlestick")
    /\ Cardinality(Positions(chart.log, "setMarkers")) = 1
    /\ \A h \in ChartSeries(chart) : chart.opts[h].markers = << >>

\* a text with price columns and no event column was loaded with success
C32_WitnessNoEvents ==
    /\ Succeeded
    /\ MapHas(seriesInstances, "candlestick")
    /\ ~SeqIncludes(ColumnNames(last.csvText), "event")
    /\ Positions(chart.log, "setMarkers") = {}

\* ------------------------------------------------------------------------
\* The legend area after updateAll
\* ------------------------------------------------------------------------

\* the legend elements a child of the legend area holds
LegendsIn(child) ==
    { child.legends[k] : k \in 1..Len(child.legends) }

ActiveLegends ==
    { seriesInstances[i].value.legendElement : i \in 1..Len(seriesInstances) }

HasIndicator(e) ==
    SeriesSourceConfigs(e.value.seriesSource).indicator # "undefined"

\* the legend area holds the legends of the active instances, each once, and
\* no other legend
LegendsOfActiveInstancesOnly ==
    Succeeded =>
        /\ \A j \in 1..Len(legendsDiv) :
              /\ LegendsIn(legendsDiv[j]) \subseteq ActiveLegends
              /\ Cardinality(LegendsIn(legendsDiv[j])) = Len(legendsDiv[j].legends)
        /\ \A l \in ActiveLegends :
              Cardinality({ j \in 1..Len(legendsDiv) : l \in LegendsIn(legendsDiv[j]) }) = 1

\* the legend of an instance without indicator group is alone in its child
StandaloneEntries ==
    \A i \in 1..Len(seriesInstances) :
        ~HasIndicator(seriesInstances[i]) =>
            \E j \in 1..Len(legendsDiv) :
                LegendsIn(legendsDiv[j]) = { seriesInstances[i].value.legendElement }

\* for each indicator with active instances one child holds the legends of
\* all of them and of no other instance, under the first two letters of the
\* indicator's id in upper case
SharedContainers ==
    \A i \in 1..Len(seriesInstances) :
        HasIndicator(seriesInstances[i]) =>
            LET g == SeriesSourceConfigs(seriesInstances[i].value.seriesSource).indicator
                members == { seriesInstances[k].value.legendElement :
                               k \in { k \in 1..Len(seriesInstances) :
                                   SourceGroup(seriesInstances[k].value.seriesSource) = g } }
            IN  \E j \in 1..Len(legendsDiv) :
                    /\ LegendsIn(legendsDiv[j]) = members
                    /\ legendsDiv[j].symbol = toUpperCase(SubSeq(g, 1, 2)) \o ":"

\* C33: after a successful updateAll the legend area holds one standalone
\* legend entry for each instance whose source has no indicator group, one
\* shared container per indicator group with the legends of all instances
\* of the group, labelled with a symbol made from the group id, and no
\* legend of an instance that is no longer active.
C33_LegendLayout ==
    Succeeded =>
        /\ LegendsOfActiveInstancesOnly
        /\ StandaloneEntries
        /\ SharedContainers

\* The layout the code builds: one labelled container per source group,
\* the indicator where the source has one and the source key otherwise.
ContainerPerSourceGroup ==
    Succeeded =>
        /\ LegendsOfActiveInstancesOnly
        /\ SharedContainers
        /\ \A j \in 1..Len(legendsDiv) :
              /\ legendsDiv[j].symbol = toUpperCase(SubSeq(legendsDiv[j].sourceGroup, 1, 2)) \o ":"
              /\ LegendsIn(legendsDiv[j]) =
                    { seriesInstances[k].value.legendElement :
                        k \in { k \in 1..Len(seriesInstances) :
                            SourceGroup(seriesInstances[k].value.seriesSource)
                                = legendsDiv[j].sourceGroup } }
        /\ \A j, k \in 1..Len(legendsDiv) :
              legendsDiv[j].sourceGroup = legendsDiv[k].sourceGroup => j = k

\* two instances of a source without indicator group in one container
UngroupedInstancesShareContainer ==
    /\ Succeeded
    /\ ColumnNames(last.csvText) = << "time", "aer", "aer_2" >>
    /\ Len(legendsDiv) = 1
    /\ Len(legendsDiv[1].legends) = 2
    /\ legendsDiv[1].symbol = "AE:"

\* a second successful call: the legends of the first call are gone
LegendsReplaced ==
    /\ Succeeded
    /\ calls = 2
    /\ Cardinality(Positions(chart.log, "fitContent")) = 2
    /\ Len(legendsDiv) = 2

\* ------------------------------------------------------------------------
\* The SeriesManager of series-config.ts: nine series created once, and
\* updateAllSeriesData, which shows those the input has a column for.
\* Here seriesInstances holds the instances of activeSeries, and legendsDiv
\* is [children, groupDivs]: the child elements of the legends element in
\* order, and for each predefined group the legends in its own element.
\* ------------------------------------------------------------------------

\* Object.keys(SeriesDefinitions)
SeriesKeys ==
    << "candlestick", "volume", "bb_upper", "bb_middle", "bb_lower",
       "dc_upper", "dc_middle", "dc_lower", "adx" >>

SeriesDefinitions(key) ==
    CASE key = "candlestick" ->
           [label |-> "O H L C", group |-> "undefined", seriesType |-> "Candlestick",
            color |-> "undefined", paneIndex |-> << >>]
      [] key = "volume" ->
           [label |-> "Volume", group |-> "undefined", seriesType |-> "Histogram",
            color |-> "#26a69a", paneIndex |-> << >>]
      [] key = "bb_upper" ->
           [label |-> "Upper BB", group |-> "bollinger_bands", seriesType |-> "Line",
            color |-> "#FF5733", paneIndex |-> << >>]
      [] key = "bb_middle" ->
           [label |-> "Middle BB", group |-> "bollinger_bands", seriesType |-> "Line",
            color |-> "#F2D222", paneIndex |-> << >>]
      [] key = "bb_lower" ->
           [label |-> "Lower BB", group |-> "bollinger_bands", seriesType |-> "Line",
            color |-> "#FF5733", paneIndex |-> << >>]
      [] key = "dc_upper" ->
           [label |-> "Upper Channel", group |-> "donchian_channels", seriesType |-> "Line",
            color |-> "#3380FF", paneIndex |-> << >>]
      [] key = "dc_middle" ->
           [label |-> "Middle Channel", group |-> "donchian_channels", seriesType |-> "Line",
            color |-> "#22F2D2", paneIndex |-> << >>]
      [] key = "dc_lower" ->
           [label |-> "Lower Channel", group |-> "donchian_channels", seriesType |-> "Line",
            color |-> "#3380FF", paneIndex |-> << >>]
      [] key = "adx" ->
           [label |-> "ADX", group |-> "undefined", seriesType |-> "Line",
            color |-> "#3380FF", paneIndex |-> << 1 >>]

predefinedGroupSeries ==
    << BollingerBands,
       [id |-> "donchian_channels", name |-> "Donchian Channels",
        seriesItems |-> << [id |-> "dc_upper", name |-> "DC Upper"],
                           [id |-> "dc_lower", name |-> "DC Lower"],
                           [id |-> "dc_middle", name |-> "DC Middle"] >>] >>

\* the series of this.seriesInstances[key]: the series are created in the
\* order of the keys
SeriesOf(key) ==
    CHOOSE h \in 1..Len(SeriesKeys) : SeriesKeys[h] = key

\* createInstances(): the chart after the nine create*Instance calls
RECURSIVE createInstances(_, _)
createInstances(c, i) ==
    IF i > Len(SeriesKeys)
    THEN c
    ELSE LET d == SeriesDefinitions(SeriesKeys[i])
             added == ChartAddSeries(c, i, d.seriesType, d.color)
         IN  createInstances(
               IF Truthy(d.paneIndex) THEN ChartMoveToPane(added, i, d.paneIndex[1]) ELSE added,
               i + 1)

\* element.remove() of a legend: out of the legends element and out of the
\* element of its group
RemoveLegend(div, h) ==
    LET Other(e) == ~(e.kind = "legend" /\ e.id = h)
    IN  [children |-> SelectSeq(div.children, Other),
         groupDivs |-> [g \in DOMAIN div.groupDivs |-> SelectSeq(div.groupDivs[g], Other)]]

\* parent.appendChild(element): an element that is a child already moves to
\* the end
AppendChild(children, e) ==
    LET Other(x) == ~(x.kind = e.kind /\ x.id = e.id)
    IN  Append(SelectSeq(children, Other), e)

RECURSIVE clearAllSeriesData(_, _)
clearAllSeriesData(st, i) ==
    IF i > Len(SeriesKeys)
    THEN st
    ELSE clearAllSeriesData(
           [st EXCEPT !.chart = ChartSetData(@, i, << >>),
                      !.legendsDiv = RemoveLegend(@, i)],
           i + 1)

\* validSeries: 'candlestick' when the four price columns are there, then
\* every key that is a column name, in insertion order
validSeriesOf(headers) ==
    LET IsColumn(key) == SeqIncludes(headers, key)
        NotCandlestick(key) == key # "candlestick"
        named == SelectSeq(SeriesKeys, IsColumn)
    IN  IF allOhlcPresent(headers)
        THEN << "candlestick" >> \o SelectSeq(named, NotCandlestick)
        ELSE named

\* a group that keeps its members whatever the input has
validGroupSeriesUnfiltered(validSeries) ==
    predefinedGroupSeries

\* validGroupSeries: the predefined groups cut down to the valid members,
\* without the groups left empty
validGroupSeries(validSeries) ==
    LET IsValid(item) == SeqIncludes(validSeries, item.id)
        NotEmpty(group) == Len(group.seriesItems) > 0
        cut == [i \in 1..Len(predefinedGroupSeries) |->
                  [predefinedGroupSeries[i] EXCEPT !.seriesItems = SelectSeq(@, IsValid)]]
    IN  SelectSeq(cut, NotEmpty)

\* validIndividualSeries: the valid series whose definition names no group
validIndividualSeries(validSeries) ==
    LET NoGroupOf(key) == SeriesDefinitions(key).group = "undefined"
        alone == SelectSeq(validSeries, NoGroupOf)
    IN  [i \in 1..Len(alone) |-> [id |-> alone[i], name |-> SeriesDefinitions(alone[i]).label]]

\* validSeries.forEach from entry i on: [threw, st]; a conversion that
\* throws ends updateAllSeriesData there
RECURSIVE SetValidSeriesFrom(_, _, _, _)
SetValidSeriesFrom(st, parser, validSeries, i) ==
    IF i > Len(validSeries)
    THEN [threw |-> FALSE, st |-> st]
    ELSE LET key == validSeries[i]
             d == SeriesDefinitions(key)
             h == SeriesOf(key)
             parsed == ParseFor(parser, key, d.seriesType)
             placed == IF d.group = "undefined"
                       THEN [st.legendsDiv EXCEPT
                               !.children = AppendChild(@, [kind |-> "legend", id |-> h])]
                       ELSE [st.legendsDiv EXCEPT
                               !.groupDivs[d.group] =
                                   AppendChild(@, [kind |-> "legend", id |-> h])]
         IN  IF parsed.threw
             THEN [threw |-> TRUE, st |-> st]
             ELSE SetValidSeriesFrom(
                    [st EXCEPT !.chart = ChartSetData(@, h, parsed.points),
                               !.legendsDiv = placed],
                    parser, validSeries, i + 1)

\* this.activeSeries = validSeries, as the map of the active instances
ActiveInstances(c, validSeries) ==
    [i \in 1..Len(validSeries) |->
        [key |-> validSeries[i],
         value |-> [NewInstance(validSeries[i], SeriesDefinitions(validSeries[i]).seriesType,
                                SeriesOf(validSeries[i]), "")
                      EXCEPT !.data = c.opts[SeriesOf(validSeries[i])].data]]]

RECURSIVE AppendGroupDivs(_, _, _)
AppendGroupDivs(children, groups, i) ==
    IF i > Len(groups)
    THEN children
    ELSE AppendGroupDivs(AppendChild(children, [kind |-> "group", id |-> groups[i].id]),
                         groups, i + 1)

\* addTradeEventMarkers() of series-config.ts: [threw, st]
addTradeEventMarkersOfConfig(st, parser) ==
    LET events == ParseTradeEvents(parser)
    IN  IF ~SeqIncludes(parser.headers, "event")
        THEN [threw |-> FALSE, st |-> st]
        ELSE IF events.threw
        THEN [threw |-> TRUE, st |-> st]
        ELSE [threw |-> FALSE,
              st |-> [st EXCEPT !.chart =
                        ChartSetMarkers(@, SeriesOf("candlestick"),
                                        createTradeEventMarkers(events.points))]]

\* updateAllSeriesData(csvText, legendsDiv): [result, st], result "done" or
\* "throw"
updateAllSeriesData(st, csvText) ==
    LET parser  == ParseCSV(csvText)
        valid   == validSeriesOf(parser.headers)
        groups  == validGroupSeries(valid)
        set     == SetValidSeriesFrom(clearAllSeriesData(st, 1), parser, valid, 1)
        active  == [set.st EXCEPT
                      !.seriesInstances = ActiveInstances(set.st.chart, valid),
                      !.legendsDiv.children = AppendGroupDivs(@, groups, 1)]
        updated == update(active, validIndividualSeries(valid), groups)
        marked  == addTradeEventMarkersOfConfig(updated, parser)
    IN  IF parser.threw
        THEN [result |-> "throw", st |-> st]
        ELSE IF set.threw
        THEN [result |-> "throw", st |-> set.st]
        ELSE IF marked.threw
        THEN [result |-> "throw", st |-> marked.st]
        ELSE [result |-> "done", st |-> marked.st]

HeaderRowsOfConfig ==
    { << "time", "open", "high", "low", "close", "volume" >>,
      << "time", "bb_upper", "bb_middle", "bb_lower", "adx" >>,
      << "time", "bb_upper", "dc_upper" >>,
      << "time", "volume" >>,
      << "time", "close" >>,
      << "bb_upper", "volume" >>,
      << "time", "open", "high", "low", "close", "event" >> }

CsvTextsOfConfig ==
    { << h, RowFor(h) >> : h \in HeaderRowsOfConfig }
    \cup { << >>, << << "time", "bb_upper" >>, << "1" >> >> }

\* new SeriesManager(chart) on a new chart
InitOfConfig ==
    /\ chart = createInstances(NewChart, 1)
    /\ seriesInstances = << >>
    /\ legendsDiv = [children |-> << >>,
                     groupDivs |-> [g \in {"bollinger_bands", "donchian_channels"} |-> << >>]]
    /\ dropdown = NewDropdown
    /\ built = << >>
    /\ last = [op |-> "new", csvText |-> << >>, result |-> "none"]
    /\ calls = 0
    /\ ops = 0
    /\ held = [set |-> {}, shared |-> FALSE, from |-> "none"]
    /\ main = MainStart
    /\ registry = NewRegistry

\* loadChartData: seriesManager.updateAllSeriesData(csvText, legendDiv)
UpdateAllSeriesData(csvText) ==
    /\ calls < MaxCalls
    /\ LET r == updateAllSeriesData(St, csvText)
       IN  /\ Adopt(r.st)
           /\ last' = [op |-> "updateAllSeriesData", csvText |-> csvText, result |-> r.result]
    /\ calls' = calls + 1
    /\ UNCHANGED <<built, ops, held, main>>

NextOfConfig ==
    \/ \E csvText \in CsvTextsOfConfig : UpdateAllSeriesData(csvText)
    \/ \E gi \in 1..Len(dropdown.seriesGroups) : GroupCheckboxChange(gi)
    \/ \E gi \in 1..Len(dropdown.seriesGroups) :
          \E mi \in 1..Len(dropdown.seriesGroups[gi].sub) : SubCheckboxChange(gi, mi)
    \/ \E i \in 1..Len(dropdown.individualSeries) : IndividualCheckboxChange(i)

SpecOfConfig == InitOfConfig /\ [][NextOfConfig]_vars

\* C16: after any resynchronization every group of the filter has at least
\* one member, and a completed resynchronization leaves exactly the groups
\* that have a member among the column names of its input, each with those
\* members only.
C16_NoEmptyGroup ==
    /\ \A gi \in 1..Len(dropdown.seriesGroups) :
          Len(dropdown.seriesGroups[gi].seriesItems) > 0
    /\ (last.op = "updateAllSeriesData" /\ last.result = "done") =>
          LET headers == Parsed(last.csvText).headers
              Present(group) == {i \in 1..Len(group.seriesItems) :
                                    SeqIncludes(headers, group.seriesItems[i].id)}
          IN  /\ \A gi \in 1..Len(dropdown.seriesGroups) :
                    \A id \in ItemIds(dropdown.seriesGroups[gi].seriesItems) :
                        SeqIncludes(headers, id)
              /\ \A i \in 1..Len(predefinedGroupSeries) :
                    HasGroup(dropdown, predefinedGroupSeries[i].id)
                       <=> Present(predefinedGroupSeries[i]) # {}

\* C16 witness: a completed resynchronization with fewer columns has left
\* the filter with items and no group, after an earlier one had shown a
\* group (the legend element of that group is still in the legends element)
C16_Witness ==
    /\ last.op = "updateAllSeriesData"
    /\ last.result = "done"
    /\ dropdown.seriesGroups = << >>
    /\ Len(dropdown.individualSeries) > 0
    /\ \E i \in 1..Len(legendsDiv.children) : legendsDiv.children[i].kind = "group"
====
